---- MODULE Spec2Model ----
(***************************************************************************)
(* Deterministic tick pipeline of the idle-game engine: StateStore,        *)
(* EventBus, UnlockEvaluator, LayerResetService and the GameEngine phase   *)
(* state machine.                                                          *)
(*                                                                         *)
(* Representation notes.                                                   *)
(*  - A dot-delimited path string is the sequence of its segments          *)
(*    ("resources.xp" is <<"resources","xp">>, "" is <<>>); the string     *)
(*    tests `p === 'derived' || p.startsWith('derived.')` and              *)
(*    `s.startsWith('layers.')` are written on the segments.               *)
(*  - A JavaScript value is a tagged record: Undef, Num(n), Bool(b),       *)
(*    Obj(f) with f a function from keys to values.                        *)
(***************************************************************************)
EXTENDS Integers, Sequences, FiniteSets, TLC

(***************************************************************************)
(* Bounds of the model.                                                    *)
(***************************************************************************)
MaxNum == 1

\* total number of events accepted by publish in one behaviour
MaxPublished == 3

\* total number of subscriptions created in one behaviour
MaxTokens == 2

\* the intents waiting in the intent queue
MaxIntents == 1

\* the tick() calls made in one behaviour
MaxTicks == 2

\* the tick() calls suspended in a hook while a nested tick() runs
MaxDepth == 1

\* the number of intent handler invocations of a router on its own
MaxRouted == 2

\* the intents waiting in the intent queue of an engine whose hooks enqueue
MaxPending == 2

(***************************************************************************)
(* JavaScript values.                                                      *)
(***************************************************************************)
Undef == [t |-> "undef"]

Num(n) == [t |-> "num", n |-> n]

Bool(b) == [t |-> "bool", b |-> b]

Obj(f) == [t |-> "obj", f |-> f]

EmptyObj == Obj([k \in {} |-> Undef])

isPlainObject(value) == value.t = "obj"

Put(f, k, v) == [x \in (DOMAIN f) \cup {k} |-> IF x = k THEN v ELSE f[x]]

Merge(f, g) == [x \in (DOMAIN f) \cup (DOMAIN g) |-> IF x \in DOMAIN g THEN g[x] ELSE f[x]]

(***************************************************************************)
(* StateStore.js: path helpers.                                            *)
(***************************************************************************)
RECURSIVE readPath(_, _)
readPath(current, parts) ==
  IF parts = <<>> THEN current
  ELSE IF ~isPlainObject(current) \/ Head(parts) \notin DOMAIN current.f THEN Undef
  ELSE readPath(current.f[Head(parts)], Tail(parts))

RECURSIVE writePath(_, _, _)
writePath(current, parts, value) ==
  IF Len(parts) = 1 THEN Obj(Put(current.f, Head(parts), value))
  ELSE LET next == IF Head(parts) \in DOMAIN current.f THEN current.f[Head(parts)] ELSE Undef
           child == IF isPlainObject(next) THEN next ELSE EmptyObj
       IN Obj(Put(current.f, Head(parts), writePath(child, Tail(parts), value)))

\* patchPath: the value written, or "throw" when the code raises
patchPath(root, parts, partial) ==
  IF ~isPlainObject(partial) THEN [ok |-> FALSE, root |-> root]
  ELSE LET current == readPath(root, parts)
       IN IF current # Undef /\ ~isPlainObject(current) THEN [ok |-> FALSE, root |-> root]
          ELSE LET base == IF current = Undef THEN EmptyObj ELSE current
               IN [ok |-> TRUE, root |-> writePath(root, parts, Obj(Merge(base.f, partial.f)))]

\* TRUE when the path passes #assertCanonicalWritePath (no policy violation)
assertCanonicalWritePath_exactOnly(path) == path # <<"derived">>

assertCanonicalWritePath(path) == ~(Len(path) >= 1 /\ path[1] = "derived")

(***************************************************************************)
(* GameEngine.js: the path of a layer-scoped write.                        *)
(***************************************************************************)
NonString == <<"#non-string">>

\* [ok, path]; pathSuffix <<>> stands for undefined, null and ''
buildLayerWritePath_noGuard(layerStatePath, pathSuffix) ==
  IF pathSuffix = <<>> THEN [ok |-> TRUE, path |-> layerStatePath]
  ELSE IF pathSuffix = NonString THEN [ok |-> FALSE, path |-> <<>>]
  ELSE [ok |-> TRUE, path |-> layerStatePath \o pathSuffix]

buildLayerWritePath(layerStatePath, pathSuffix) ==
  IF pathSuffix = <<>> THEN [ok |-> TRUE, path |-> layerStatePath]
  ELSE IF pathSuffix = NonString THEN [ok |-> FALSE, path |-> <<>>]
  ELSE IF Len(pathSuffix) >= 2 /\ pathSuffix[1] = "layers" THEN [ok |-> FALSE, path |-> <<>>]
  ELSE [ok |-> TRUE, path |-> layerStatePath \o pathSuffix]

(***************************************************************************)
(* The game definition of the model (a validated definition).              *)
(***************************************************************************)
DefinitionState ==
  Obj([k \in {"resources"} |-> Obj([r \in {"xp", "gold"} |-> Num(0)])])

\* a node without an unlock field: #buildTarget parses { always: true }
AlwaysUnlocked == [type |-> "always", value |-> TRUE]

ResourceGte(path, value) == [type |-> "resourceGte", path |-> path, value |-> value]

Compare(path, op, value) == [type |-> "compare", path |-> path, op |-> op, value |-> value]

Flag(path) == [type |-> "flag", path |-> path]

NotOf(child) == [type |-> "not", child |-> child]

AllOf(children) == [type |-> "all", children |-> children]

AnyOf(children) == [type |-> "any", children |-> children]

COMPARISON_OPS == {"gt", "gte", "lt", "lte", "eq", "neq"}

Definition ==
  [state |-> DefinitionState,
   layers |-> <<
     [id |-> "idle", type |-> "progressLayer", unlock |-> AlwaysUnlocked,
      reset |-> [keep |-> << <<"resources", "gold">> >>],
      sublayers |-> <<
        [id |-> "main", unlock |-> AlwaysUnlocked,
         sections |-> <<
           [id |-> "jobs", unlock |-> ResourceGte(<<"resources", "gold">>, 1),
            elements |-> <<
              [id |-> "xp-gated", unlock |-> ResourceGte(<<"resources", "xp">>, 1)] >>] >>] >>],
     [id |-> "bonus", type |-> "progressLayer",
      unlock |-> ResourceGte(<<"resources", "gold">>, 1),
      reset |-> [keep |-> <<>>],
      sublayers |-> <<>>] >>]

LayerIds == [i \in 1..Len(Definition.layers) |-> Definition.layers[i].id]

RECURSIVE Concat(_)
Concat(lists) == IF lists = <<>> THEN <<>> ELSE Head(lists) \o Concat(Tail(lists))

InSeq(x, list) == \E i \in 1..Len(list) : list[i] = x

(***************************************************************************)
(* nodeRef: formatNodeRef of a reference given as its ids, the layer id    *)
(* first.                                                                  *)
(***************************************************************************)
NODE_REF_ORDER == <<"layer", "sublayer", "section", "element">>

RECURSIVE formatNodeRefFrom(_, _)
formatNodeRefFrom(ids, index) ==
  IF index > Len(ids) THEN ""
  ELSE (IF index = 1 THEN "" ELSE "/") \o NODE_REF_ORDER[index] \o ":" \o ids[index]
         \o formatNodeRefFrom(ids, index + 1)

formatNodeRef(ids) == formatNodeRefFrom(ids, 1)

(***************************************************************************)
(* nodeRef: parseNodeRef and normalizeNodeRef on references given as       *)
(* strings.  A string is the sequence of its symbols: a scope word, ":",   *)
(* "/", " " (any whitespace) or a character of an id.                      *)
(***************************************************************************)
RECURSIVE trimStart(_)
trimStart(s) == IF s # <<>> /\ Head(s) = " " THEN trimStart(Tail(s)) ELSE s

RECURSIVE trimEnd(_)
trimEnd(s) == IF s # <<>> /\ s[Len(s)] = " " THEN trimEnd(SubSeq(s, 1, Len(s) - 1)) ELSE s

\* only the whitespace at the start is removed
trim_startOnly(s) == trimStart(s)

\* String.prototype.trim
trim(s) == trimEnd(trimStart(s))

\* String.prototype.indexOf, counted from 0; -1 when x does not occur
indexOf(s, x) ==
  IF InSeq(x, s) THEN (CHOOSE i \in 1..Len(s) : s[i] = x /\ \A j \in 1..(i - 1) : s[j] # x) - 1
  ELSE -1

\* String.prototype.split
RECURSIVE split(_, _)
split(s, separator) ==
  IF indexOf(s, separator) = -1 THEN <<s>>
  ELSE <<SubSeq(s, 1, indexOf(s, separator))>>
       \o split(SubSeq(s, indexOf(s, separator) + 2, Len(s)), separator)

isNonEmptyString(value) == trim(value) # <<>>

\* no scope parsed yet; <<>> stands for undefined
NoScopes == [scope \in {"layer", "sublayer", "section", "element"} |-> <<>>]

NodeRefError(code) == [ok |-> FALSE, code |-> code, value |-> NoScopes]

\* the loop of parseNodeRef from part partIndex on, and the check after it
RECURSIVE parseNodeRefFrom(_, _, _, _)
parseNodeRefFrom(parts, partIndex, parsed, lastScopeIndex) ==
  IF partIndex > Len(parts)
  THEN IF parsed["layer"] = <<>> THEN NodeRefError("NODE_REF_LAYER_REQUIRED")
       ELSE [ok |-> TRUE, code |-> "", value |-> parsed]
  ELSE LET part == parts[partIndex]
           colonIndex == indexOf(part, ":")
           scope == trim(SubSeq(part, 1, colonIndex))
           id == trim(SubSeq(part, colonIndex + 2, Len(part)))
           scopeIndexes == { k \in 1..Len(NODE_REF_ORDER) : scope = <<NODE_REF_ORDER[k]>> }
           scopeIndex == IF scopeIndexes = {} THEN -1 ELSE (CHOOSE k \in scopeIndexes : TRUE) - 1
       IN IF part = <<>> THEN NodeRefError("NODE_REF_SEGMENT_EMPTY")
          ELSE IF colonIndex <= 0 \/ colonIndex = Len(part) - 1 THEN NodeRefError("NODE_REF_FORMAT")
          ELSE IF ~isNonEmptyString(id) THEN NodeRefError("NODE_REF_ID_EMPTY")
          ELSE IF scopeIndex = -1 THEN NodeRefError("NODE_REF_SCOPE_INVALID")
          ELSE IF parsed[scope[1]] # <<>> THEN NodeRefError("NODE_REF_SCOPE_DUPLICATE")
          ELSE IF scopeIndex # lastScopeIndex + 1 THEN NodeRefError("NODE_REF_SCOPE_ORDER")
          ELSE parseNodeRefFrom(parts, partIndex + 1, [parsed EXCEPT ![scope[1]] = id],
                                scopeIndex)

parseNodeRef(ref) ==
  IF ~isNonEmptyString(ref) THEN NodeRefError("NODE_REF_EMPTY")
  ELSE parseNodeRefFrom([i \in 1..Len(split(ref, "/")) |-> trim(split(ref, "/")[i])],
                        1, NoScopes, -1)

\* formatNodeRef of a parsed reference, as a string of symbols
formatParsedNodeRef(nodeRef) ==
  <<"layer", ":">> \o nodeRef["layer"]
  \o (IF nodeRef["sublayer"] # <<>> THEN <<"/", "sublayer", ":">> \o nodeRef["sublayer"] ELSE <<>>)
  \o (IF nodeRef["section"] # <<>> THEN <<"/", "section", ":">> \o nodeRef["section"] ELSE <<>>)
  \o (IF nodeRef["element"] # <<>> THEN <<"/", "element", ":">> \o nodeRef["element"] ELSE <<>>)

\* [ok, code, value]: the error of parseNodeRef, or the formatted reference
normalizeNodeRef(ref) ==
  IF ~parseNodeRef(ref).ok THEN [ok |-> FALSE, code |-> parseNodeRef(ref).code, value |-> <<>>]
  ELSE [ok |-> TRUE, code |-> "", value |-> formatParsedNodeRef(parseNodeRef(ref).value)]

(***************************************************************************)
(* unlockCondition.js                                                      *)
(***************************************************************************)
\* a flag leaf holds for every value that is present, a number leaf compares
\* the value whatever its type
RECURSIVE evaluateUnlockCondition_untyped(_, _)
evaluateUnlockCondition_untyped(ast, state) ==
  CASE ast.type = "always" -> ast.value
    [] ast.type \in {"resourceGte", "compare"} ->
         LET read == readPath(state, ast.path)
         IN IF read.t = "num" THEN read.n >= ast.value ELSE read.t # "undef"
    [] ast.type = "flag" -> readPath(state, ast.path).t # "undef"
    [] ast.type = "all" ->
         \A i \in 1..Len(ast.children) : evaluateUnlockCondition_untyped(ast.children[i], state)
    [] ast.type = "any" ->
         \E i \in 1..Len(ast.children) : evaluateUnlockCondition_untyped(ast.children[i], state)
    [] ast.type = "not" -> ~evaluateUnlockCondition_untyped(ast.child, state)
    [] OTHER -> FALSE

RECURSIVE evaluateUnlockCondition(_, _)
evaluateUnlockCondition(ast, state) ==
  CASE ast.type = "always" -> ast.value
    [] ast.type = "resourceGte" ->
         LET read == readPath(state, ast.path)
         IN read.t = "num" /\ read.n >= ast.value
    [] ast.type = "compare" ->
         LET read == readPath(state, ast.path)
         IN IF read.t # "num" THEN FALSE
            ELSE CASE ast.op = "gt" -> read.n > ast.value
                   [] ast.op = "gte" -> read.n >= ast.value
                   [] ast.op = "lt" -> read.n < ast.value
                   [] ast.op = "lte" -> read.n <= ast.value
                   [] ast.op = "eq" -> read.n = ast.value
                   [] OTHER -> read.n # ast.value
    [] ast.type = "flag" -> readPath(state, ast.path) = Bool(TRUE)
    [] ast.type = "all" ->
         \A i \in 1..Len(ast.children) : evaluateUnlockCondition(ast.children[i], state)
    [] ast.type = "any" ->
         \E i \in 1..Len(ast.children) : evaluateUnlockCondition(ast.children[i], state)
    [] ast.type = "not" -> ~evaluateUnlockCondition(ast.child, state)
    [] OTHER -> FALSE

(***************************************************************************)
(* Unlock progress.  A progress value is a number of steps of 1/Grid, 0    *)
(* to Grid for 0 to 1; a quotient is rounded towards zero to a step.       *)
(***************************************************************************)
\* the steps between 0 and 1
Grid == 60

\* Number.EPSILON: the distance from 1 to the next number
EPSILON == 1

\* clampProgress(a / b): 0 when the quotient is not finite or negative
clampedQuotient(a, b) ==
  IF b = 0 THEN 0
  ELSE IF (a < 0) # (b < 0) THEN 0
  ELSE LET q == ((IF a < 0 THEN -a ELSE a) * Grid) \div (IF b < 0 THEN -b ELSE b)
       IN IF q > Grid THEN Grid ELSE q

\* clampProgress of a number of steps
clampProgress(value) == IF value < 0 THEN 0 ELSE IF value > Grid THEN Grid ELSE value

\* unlockCondition.js
estimateThresholdProgress(current, target, direction) ==
  IF direction = "at-least"
  THEN IF current >= target THEN Grid
       ELSE IF target = 0 THEN 0
       ELSE IF target > 0 THEN clampedQuotient(current, target)
       ELSE clampedQuotient(target, current)
  ELSE IF current <= target THEN Grid
       ELSE IF target = 0 THEN 0
       ELSE IF target > 0 THEN clampedQuotient(target, current)
       ELSE clampedQuotient(current, target)

RECURSIVE evaluateUnlockProgress(_, _)
evaluateUnlockProgress(ast, state) ==
  CASE ast.type = "always" -> IF ast.value THEN Grid ELSE 0
    [] ast.type = "resourceGte" ->
         LET read == readPath(state, ast.path)
         IN IF read.t # "num" THEN 0
            ELSE IF ast.value <= 0 THEN (IF read.n >= ast.value THEN Grid ELSE 0)
            ELSE clampedQuotient(read.n, ast.value)
    [] ast.type = "compare" ->
         LET read == readPath(state, ast.path)
         IN IF read.t # "num" THEN 0
            ELSE IF ast.op \in {"eq", "neq"}
                 THEN (IF evaluateUnlockCondition(ast, state) THEN Grid ELSE 0)
            ELSE IF ast.op \in {"gt", "gte"}
                 THEN estimateThresholdProgress(read.n, ast.value, "at-least")
            ELSE estimateThresholdProgress(read.n, ast.value, "at-most")
    [] ast.type = "flag" -> IF readPath(state, ast.path) = Bool(TRUE) THEN Grid ELSE 0
    [] ast.type = "all" ->
         LET RECURSIVE sum(_)
             sum(i) == IF i > Len(ast.children) THEN 0
                       ELSE evaluateUnlockProgress(ast.children[i], state) + sum(i + 1)
         IN clampProgress(sum(1) \div Len(ast.children))
    [] ast.type = "any" ->
         LET RECURSIVE best(_)
             best(i) == IF i > Len(ast.children) THEN 0
                        ELSE LET childProgress == evaluateUnlockProgress(ast.children[i], state)
                             IN IF childProgress > best(i + 1) THEN childProgress ELSE best(i + 1)
         IN best(1)
    [] ast.type = "not" -> clampProgress(Grid - evaluateUnlockProgress(ast.child, state))
    [] OTHER -> 0

\* the copy of unlockCondition.js with strict thresholds
Strict_estimateZeroThresholdProgress(current) ==
  clampedQuotient(1, 1 + (IF current < 0 THEN -current ELSE current))

Strict_estimateThresholdProgress(current, target, direction, strict) ==
  LET progress ==
        IF direction = "at-least"
        THEN IF current >= target THEN Grid
             ELSE IF target = 0 THEN Strict_estimateZeroThresholdProgress(current)
             ELSE IF target > 0 THEN clampedQuotient(current, target)
             ELSE clampedQuotient(target, current)
        ELSE IF current <= target THEN Grid
             ELSE IF target = 0 THEN Strict_estimateZeroThresholdProgress(current)
             ELSE IF target > 0 THEN clampedQuotient(target, current)
             ELSE clampedQuotient(current, target)
      atOrBefore == IF direction = "at-least" THEN current <= target ELSE current >= target
  IN IF strict /\ atOrBefore /\ progress > Grid - EPSILON THEN Grid - EPSILON ELSE progress

RECURSIVE Strict_evaluateUnlockProgress(_, _)
Strict_evaluateUnlockProgress(ast, state) ==
  CASE ast.type = "always" -> IF ast.value THEN Grid ELSE 0
    [] ast.type = "resourceGte" ->
         LET read == readPath(state, ast.path)
         IN IF read.t # "num" THEN 0
            ELSE IF ast.value <= 0 THEN (IF read.n >= ast.value THEN Grid ELSE 0)
            ELSE clampedQuotient(read.n, ast.value)
    [] ast.type = "compare" ->
         LET read == readPath(state, ast.path)
         IN IF read.t # "num" THEN 0
            ELSE IF ast.op \in {"eq", "neq"}
                 THEN (IF evaluateUnlockCondition(ast, state) THEN Grid ELSE 0)
            ELSE IF ast.op \in {"gt", "gte"}
                 THEN Strict_estimateThresholdProgress(read.n, ast.value, "at-least",
                                                       ast.op = "gt")
            ELSE Strict_estimateThresholdProgress(read.n, ast.value, "at-most", ast.op = "lt")
    [] ast.type = "flag" -> IF readPath(state, ast.path) = Bool(TRUE) THEN Grid ELSE 0
    [] ast.type = "all" ->
         LET RECURSIVE sum(_)
             sum(i) == IF i > Len(ast.children) THEN 0
                       ELSE Strict_evaluateUnlockProgress(ast.children[i], state) + sum(i + 1)
         IN clampProgress(sum(1) \div Len(ast.children))
    [] ast.type = "any" ->
         LET RECURSIVE best(_)
             best(i) == IF i > Len(ast.children) THEN 0
                        ELSE LET childProgress ==
                                   Strict_evaluateUnlockProgress(ast.children[i], state)
                             IN IF childProgress > best(i + 1) THEN childProgress ELSE best(i + 1)
         IN best(1)
    [] ast.type = "not" ->
         IF evaluateUnlockCondition(ast, state) THEN Grid
         ELSE clampProgress(Grid - Strict_evaluateUnlockProgress(ast.child, state))
    [] OTHER -> 0

evaluateUnlockTransition_noLatch(wasUnlocked, ast, state, phase) ==
  IF phase # "end-of-tick" THEN [ok |-> FALSE, unlocked |-> wasUnlocked, transitioned |-> FALSE]
  ELSE [ok |-> TRUE, unlocked |-> evaluateUnlockCondition(ast, state),
        transitioned |-> evaluateUnlockCondition(ast, state) /\ ~wasUnlocked]

evaluateUnlockTransition(wasUnlocked, ast, state, phase) ==
  IF phase # "end-of-tick" THEN [ok |-> FALSE, unlocked |-> wasUnlocked, transitioned |-> FALSE]
  ELSE IF wasUnlocked THEN [ok |-> TRUE, unlocked |-> TRUE, transitioned |-> FALSE]
  ELSE [ok |-> TRUE, unlocked |-> evaluateUnlockCondition(ast, state),
        transitioned |-> evaluateUnlockCondition(ast, state)]

(***************************************************************************)
(* UnlockEvaluator: the targets of a definition, in evaluation order.      *)
(***************************************************************************)
buildTarget(ref, unlockCondition) == [ref |-> ref, ast |-> unlockCondition]

\* an element is a target of its own condition and that of its section
elementTargets_gated(layer, sublayer, section) ==
  [i \in 1..Len(section.elements) |->
     buildTarget(formatNodeRef(<<layer.id, sublayer.id, section.id, section.elements[i].id>>),
                 AllOf(<<section.unlock, section.elements[i].unlock>>))]

elementTargets(layer, sublayer, section) ==
  [i \in 1..Len(section.elements) |->
     buildTarget(formatNodeRef(<<layer.id, sublayer.id, section.id, section.elements[i].id>>),
                 section.elements[i].unlock)]

sectionTargets(layer, sublayer) ==
  Concat([i \in 1..Len(sublayer.sections) |->
     <<buildTarget(formatNodeRef(<<layer.id, sublayer.id, sublayer.sections[i].id>>),
                   sublayer.sections[i].unlock)>>
     \o elementTargets(layer, sublayer, sublayer.sections[i])])

sublayerTargets(layer) ==
  Concat([i \in 1..Len(layer.sublayers) |->
     <<buildTarget(formatNodeRef(<<layer.id, layer.sublayers[i].id>>), layer.sublayers[i].unlock)>>
     \o sectionTargets(layer, layer.sublayers[i])])

\* every layer before any sublayer
collectTargets_layersFirst(definition) ==
  [i \in 1..Len(definition.layers) |->
     buildTarget(formatNodeRef(<<definition.layers[i].id>>), definition.layers[i].unlock)]
  \o Concat([i \in 1..Len(definition.layers) |-> sublayerTargets(definition.layers[i])])

collectTargets(definition) ==
  Concat([i \in 1..Len(definition.layers) |->
     <<buildTarget(formatNodeRef(<<definition.layers[i].id>>), definition.layers[i].unlock)>>
     \o sublayerTargets(definition.layers[i])])

Targets == collectTargets(Definition)

TargetRefs == { Targets[i].ref : i \in 1..Len(Targets) }

(***************************************************************************)
(* UIComposer.compose: the node references of the composed tree, in tree   *)
(* order.  A node is composed when isUnlocked holds for it and for every   *)
(* node above it.                                                          *)
(***************************************************************************)
composeElements(layer, sublayer, section, unlockedRefs) ==
  Concat([i \in 1..Len(section.elements) |->
     LET ref == formatNodeRef(<<layer.id, sublayer.id, section.id, section.elements[i].id>>)
     IN IF InSeq(ref, unlockedRefs) THEN <<ref>> ELSE <<>>])

\* the elements of a locked section are composed as well
composeSections_flat(layer, sublayer, unlockedRefs) ==
  Concat([i \in 1..Len(sublayer.sections) |->
     LET ref == formatNodeRef(<<layer.id, sublayer.id, sublayer.sections[i].id>>)
     IN (IF InSeq(ref, unlockedRefs) THEN <<ref>> ELSE <<>>)
        \o composeElements(layer, sublayer, sublayer.sections[i], unlockedRefs)])

composeSections(layer, sublayer, unlockedRefs) ==
  Concat([i \in 1..Len(sublayer.sections) |->
     LET ref == formatNodeRef(<<layer.id, sublayer.id, sublayer.sections[i].id>>)
     IN IF InSeq(ref, unlockedRefs)
        THEN <<ref>> \o composeElements(layer, sublayer, sublayer.sections[i], unlockedRefs)
        ELSE <<>>])

composeSublayers(layer, unlockedRefs) ==
  Concat([i \in 1..Len(layer.sublayers) |->
     LET ref == formatNodeRef(<<layer.id, layer.sublayers[i].id>>)
     IN IF InSeq(ref, unlockedRefs)
        THEN <<ref>> \o composeSections(layer, layer.sublayers[i], unlockedRefs)
        ELSE <<>>])

compose(definition, unlockedRefs) ==
  Concat([i \in 1..Len(definition.layers) |->
     LET ref == formatNodeRef(<<definition.layers[i].id>>)
     IN IF InSeq(ref, unlockedRefs)
        THEN <<ref>> \o composeSublayers(definition.layers[i], unlockedRefs)
        ELSE <<>>])

(***************************************************************************)
(* LayerResetService: the canonical state after a reset of a layer.        *)
(***************************************************************************)
findLayer(definition, layerId) ==
  { i \in 1..Len(definition.layers) : definition.layers[i].id = layerId }

\* the entries of reset.keep that are non-empty strings
getKeepPaths(layer) ==
  IF "reset" \notin DOMAIN layer THEN <<>>
  ELSE SelectSeq(layer.reset.keep, LAMBDA entry : entry # <<>>)

RECURSIVE getPath(_, _)
getPath(current, parts) ==
  IF parts = <<>> THEN current
  ELSE IF current.t # "obj" \/ Head(parts) \notin DOMAIN current.f THEN Undef
  ELSE getPath(current.f[Head(parts)], Tail(parts))

\* the baseline is left as it is
setPath_skip(current, parts, value) == current

RECURSIVE setPath(_, _, _)
setPath(current, parts, value) ==
  IF Len(parts) = 1 THEN Obj(Put(current.f, Head(parts), value))
  ELSE LET part == Head(parts)
           child == IF part \in DOMAIN current.f /\ current.f[part].t = "obj"
                    THEN current.f[part] ELSE EmptyObj
       IN Obj(Put(current.f, part, setPath(child, Tail(parts), value)))

RECURSIVE resetBaseline(_, _, _)
resetBaseline(baseCanonical, currentCanonical, keepPaths) ==
  IF keepPaths = <<>> THEN baseCanonical
  ELSE LET preservedValue == getPath(currentCanonical, Head(keepPaths))
       IN resetBaseline(IF preservedValue # Undef
                        THEN setPath(baseCanonical, Head(keepPaths), preservedValue)
                        ELSE baseCanonical,
                        currentCanonical, Tail(keepPaths))

(***************************************************************************)
(* GameEngine.js: the phases.                                              *)
(***************************************************************************)
ENGINE_PHASE_SEQUENCE ==
  <<"input", "time", "layer-update", "event-dispatch", "unlock-evaluation", "render">>

Null == "null"

(***************************************************************************)
(* eventCatalog.js.  The payload of an event is abstracted to its one      *)
(* required string field (targetRef or layerId); "" is a payload that the  *)
(* validator rejects.  preservedKeys, the optional field of the payload of *)
(* LAYER_RESET_EXECUTED, is <<>> when absent and <<keys>> when present.    *)
(***************************************************************************)
EventTypes == {"UNLOCKED", "LAYER_RESET_REQUESTED", "LAYER_RESET_EXECUTED", "PING"}

\* LAYER_RESET_REQUESTED allowed in the event-dispatch phase only
EVENT_CATALOG_dispatchOnly ==
  [UNLOCKED |-> [consumers |-> {"progressLayer"}, phaseConstraints |-> {"unlock-evaluation"}],
   LAYER_RESET_REQUESTED |-> [consumers |-> {"LayerResetService"}, phaseConstraints |-> {"event-dispatch"}],
   LAYER_RESET_EXECUTED |-> [consumers |-> {"progressLayer"}, phaseConstraints |-> {"event-dispatch"}]]

EVENT_CATALOG ==
  [UNLOCKED |-> [consumers |-> {"progressLayer"}, phaseConstraints |-> {"unlock-evaluation"}],
   LAYER_RESET_REQUESTED |-> [consumers |-> {"LayerResetService"}, phaseConstraints |-> {"input", "event-dispatch"}],
   LAYER_RESET_EXECUTED |-> [consumers |-> {"progressLayer"}, phaseConstraints |-> {"event-dispatch"}]]

getEventCatalogEntry(eventType) == eventType \in DOMAIN EVENT_CATALOG

validatePayload(eventType, payload) == payload # ""

(***************************************************************************)
(* EventBus.js: pure parts.                                                *)
(***************************************************************************)
\* [ok, event]: ok is FALSE when #normalizeEvent raises
normalizeEvent(event, allowed) ==
  [ok |-> event.type # "",
   event |-> [type |-> event.type,
              payload |-> event.payload,
              preservedKeys |-> IF "preservedKeys" \in DOMAIN event
                                THEN event.preservedKeys ELSE <<>>,
              phase |-> IF event.phase # Null THEN event.phase ELSE allowed]]

\* TRUE when #validateAgainstCatalog does not raise
\* without the check of the payload
validateAgainstCatalog_noPayload(event) ==
  /\ getEventCatalogEntry(event.type)
  /\ (event.phase # Null => event.phase \in EVENT_CATALOG[event.type].phaseConstraints)

validateAgainstCatalog(event) ==
  /\ getEventCatalogEntry(event.type)
  /\ validatePayload(event.type, event.payload)
  /\ (event.phase # Null => event.phase \in EVENT_CATALOG[event.type].phaseConstraints)

EmptySubscribers == [t \in EventTypes |-> <<>>]

Tokens(list) == [i \in 1..Len(list) |-> list[i].token]

Seqs(events) == [i \in 1..Len(events) |-> events[i].seq]

IsPrefix(a, b) == Len(a) <= Len(b) /\ a = SubSeq(b, 1, Len(a))

InitialDispatchReport ==
  [cyclesProcessed |-> 0, eventsProcessed |-> 0, deliveredHandlers |-> 0,
   deferredEvents |-> 0, deferredDueToCycleLimit |-> FALSE]

\* the locals of a dispatchQueued() call; pc "idle" when no call is running
DispatchIdle ==
  [pc |-> "idle", cyclesProcessed |-> 0, processedEvents |-> 0, delivered |-> 0,
   dispatchQueue |-> <<>>, idx |-> 0, snapshot |-> EmptySubscribers,
   handlers |-> <<>>, hidx |-> 0, ops |-> <<>>]

\* the type a cascading handler publishes
\* what a subscribed handler does when invoked, as a list of calls
HandlerScript(handler, event) ==
  CASE handler = "republish" -> <<[op |-> "publish", arg |-> event.type]>>
    [] handler = "lateSub" -> <<[op |-> "subscribe", arg |-> event.type]>>
    [] handler = "unsubLast" -> <<[op |-> "unsubscribe", arg |-> event.type]>>
    [] handler = "LayerResetService" -> <<[op |-> "execute", arg |-> event.payload]>>
    [] OTHER -> <<>>

\* the value null where an object is expected
NullRec == [null |-> TRUE]

\* the summary object a tick() call builds
EmptySummary ==
  [intentsRouted |-> <<>>, dt |-> 0, updatedLayers |-> <<>>, dispatchedHandlers |-> 0,
   dispatch |-> NullRec, unlocks |-> NullRec, ui |-> NullRec]

\* the locals of a tick() call; pc "idle" when no call is running.  queued is
\* the intent queue that #runInputPhase took and pending the part of it that
\* is not routed yet; startSeq and startQueued record the bus at the start of
\* the call: the number the next published event gets, and the length of the
\* queue
TickIdle ==
  [pc |-> "idle", hookPc |-> "", reentered |-> FALSE, entered |-> <<>>, queued |-> <<>>,
   pending |-> <<>>, layerIdx |-> 0, updateCalls |-> <<>>, summary |-> EmptySummary,
   startSeq |-> 0, startQueued |-> 0]

VARIABLES
  canonicalState, derivedState,      \* StateStore
  strictValidation, allowedPhase, maxEventsPerTick, maxDispatchCyclesPerTick,
  queue, subscribers, nextToken, lastDispatchReport,   \* EventBus
  disp,                              \* the running dispatchQueued() call
  nextSeq, cycleNo, invocations, lastInv, cycleStartSubs, doneForEvent, deferred,
                                     \* history of the bus
  initialized, definition, factoriesByType, layerInstances,
  runtimeSubscriptionTokens, layerEventSubscriptionTokens,
  intentQueue, lastTickSummary, currentPhase, phaseCursor,   \* GameEngine
  unlockedByRef,                     \* UnlockEvaluator
  handlers, lockedNodes,             \* IntentRouter: the types with a handler, the nodes
                                     \* that the isNodeLocked option reports as locked
  handlerCalls,                      \* the number of intent handler invocations so far
  tickCalls,                         \* the number of tick() calls made so far
  tick, outerTicks,                  \* the running tick() call and the calls it is nested in
  lastOp                             \* the last call and its outcome

storeVars == <<canonicalState, derivedState>>

busConfig == <<strictValidation, maxEventsPerTick, maxDispatchCyclesPerTick>>

busVars == <<allowedPhase, queue, subscribers, nextToken, lastDispatchReport, disp>>

busHistory == <<nextSeq, cycleNo, invocations, lastInv, cycleStartSubs, doneForEvent, deferred>>

engineVars ==
  <<initialized, definition, factoriesByType, layerInstances, runtimeSubscriptionTokens,
    layerEventSubscriptionTokens, intentQueue, lastTickSummary, currentPhase, phaseCursor,
    unlockedByRef, tickCalls, handlers, lockedNodes, handlerCalls>>

tickVars == <<tick, outerTicks>>

vars == <<storeVars, busConfig, busVars, busHistory, engineVars, tickVars, lastOp>>

(***************************************************************************)
(* StateStore operations as pure results: [ok, canonical].                 *)
(***************************************************************************)
StoreSetResult(canonical, path, value) ==
  IF ~assertCanonicalWritePath(path) THEN [ok |-> FALSE, root |-> canonical]
  ELSE IF path = <<>> THEN [ok |-> FALSE, root |-> canonical]
  ELSE [ok |-> TRUE, root |-> writePath(canonical, path, value)]

StorePatchResult(canonical, path, partial) ==
  IF ~assertCanonicalWritePath(path) THEN [ok |-> FALSE, root |-> canonical]
  ELSE IF ~isPlainObject(partial) THEN [ok |-> FALSE, root |-> canonical]
  ELSE IF path = <<>> THEN [ok |-> FALSE, root |-> canonical]
  ELSE patchPath(canonical, path, partial)

(***************************************************************************)
(* Inputs of the store operations.                                         *)
(***************************************************************************)
StorePaths ==
  { <<>>, <<"derived">>, <<"derived", "unlocks">>, <<"resources">>, <<"resources", "xp">> }

DerivedPaths == { <<>>, <<"unlocks">> }

StoreValues == { Num(0), Num(MaxNum) }

\* a non-object partial and a plain-object partial
StorePartials == { Num(0), Obj([k \in {"gold"} |-> Num(MaxNum)]) }

OwnSuffixes == { <<>>, NonString, <<"level">>, <<"layers">>, <<"layers", "bonus">> }

OwnPartials == { Obj([k \in {"level"} |-> Num(MaxNum)]) }

\* new StateStore(definition.state)
StoreInit ==
  /\ canonicalState = DefinitionState
  /\ derivedState = EmptyObj

\* new EventBus({strictValidation, maxEventsPerTick, maxDispatchCyclesPerTick})
BusInit(strict, maxEvents, maxCycles) ==
  /\ strictValidation = strict
  /\ allowedPhase = Null
  /\ maxEventsPerTick = maxEvents
  /\ maxDispatchCyclesPerTick = maxCycles
  /\ queue = <<>>
  /\ subscribers = EmptySubscribers
  /\ nextToken = 1
  /\ lastDispatchReport = InitialDispatchReport
  /\ disp = DispatchIdle
  /\ nextSeq = 1
  /\ cycleNo = 0
  /\ invocations = 0
  /\ lastInv = [seq |-> 0, token |-> 0]
  /\ cycleStartSubs = EmptySubscribers
  /\ doneForEvent = <<>>
  /\ deferred = <<>>

\* new GameEngine({layerRegistry, ...})
EngineInit(registry) ==
  /\ initialized = FALSE
  /\ definition = NullRec
  /\ factoriesByType = registry
  /\ layerInstances = <<>>
  /\ runtimeSubscriptionTokens = <<>>
  /\ layerEventSubscriptionTokens = <<>>
  /\ intentQueue = <<>>
  /\ lastTickSummary = NullRec
  /\ currentPhase = Null
  /\ phaseCursor = -1
  /\ unlockedByRef = <<>>
  /\ tickCalls = 0
  /\ tick = TickIdle
  /\ outerTicks = <<>>

\* new IntentRouter({strictValidation, isNodeLocked}); locked is the set of
\* nodes for which the isNodeLocked option returns true
RouterInit(locked) ==
  /\ handlers = {}
  /\ lockedNodes = locked
  /\ handlerCalls = 0

\* the effect of set on the store; StoreSetResult tells whether it raises
StateStore_set(path, value) ==
  /\ canonicalState' = StoreSetResult(canonicalState, path, value).root
  /\ derivedState' = derivedState

StateStore_patch(path, partial) ==
  /\ canonicalState' = StorePatchResult(canonicalState, path, partial).root
  /\ derivedState' = derivedState

\* what a call on the store leaves alone
storeRest == <<busConfig, busVars, busHistory, engineVars, tickVars>>

\* a caller of the store alone calls set, and the call is recorded
Caller_set(path, value) ==
  /\ StateStore_set(path, value)
  /\ lastOp' = [op |-> "set", path |-> path, ok |-> StoreSetResult(canonicalState, path, value).ok]
  /\ UNCHANGED storeRest

Caller_patch(path, partial) ==
  /\ StateStore_patch(path, partial)
  /\ lastOp' = [op |-> "patch", path |-> path,
                ok |-> StorePatchResult(canonicalState, path, partial).ok]
  /\ UNCHANGED storeRest

StateStore_setDerived(path, value) ==
  /\ canonicalState' = canonicalState
  /\ derivedState' = IF path = <<>> THEN derivedState ELSE writePath(derivedState, path, value)
  /\ lastOp' = [op |-> "setDerived", path |-> path, ok |-> path # <<>>]
  /\ UNCHANGED storeRest

\* the live state objects, not frozen
StateStore_snapshot_live ==
  [canonical |-> canonicalState, derived |-> derivedState, frozen |-> FALSE,
   aliased |-> {"canonical", "derived"}]

\* snapshot(): deepClone gives copies that share no object with the store
\* (aliased: the namespaces whose objects the result shares with it), and
\* deepFreeze freezes every object of the result
StateStore_snapshot ==
  [canonical |-> canonicalState, derived |-> derivedState, frozen |-> TRUE, aliased |-> {}]

\* the parts of the path `layers.${id}` as splitPath gives them: an id
\* with a dot gives a part for each side of the dot
layerStatePath(layerId) ==
  IF layerId = "idle.core" THEN <<"layers", "idle", "core">> ELSE <<"layers", layerId>>

\* ctx.state.setOwn of the layer context of layerId
LayerContext_setOwn(layerId, pathSuffix, value) ==
  LET w == buildLayerWritePath(layerStatePath(layerId), pathSuffix)
      r == IF w.ok THEN StoreSetResult(canonicalState, w.path, value)
           ELSE [ok |-> FALSE, root |-> canonicalState]
  IN /\ canonicalState' = r.root
     /\ derivedState' = derivedState
     /\ lastOp' = [op |-> "setOwn", path |-> pathSuffix, ok |-> r.ok]
     /\ UNCHANGED storeRest

LayerContext_patchOwn(layerId, pathSuffix, partial) ==
  LET w == buildLayerWritePath(layerStatePath(layerId), pathSuffix)
      r == IF w.ok THEN StorePatchResult(canonicalState, w.path, partial)
           ELSE [ok |-> FALSE, root |-> canonicalState]
  IN /\ canonicalState' = r.root
     /\ derivedState' = derivedState
     /\ lastOp' = [op |-> "patchOwn", path |-> pathSuffix, ok |-> r.ok]
     /\ UNCHANGED storeRest

StoreNext ==
  \/ \E p \in StorePaths, v \in StoreValues : Caller_set(p, v)
  \/ \E p \in StorePaths, v \in StorePartials : Caller_patch(p, v)
  \/ \E p \in DerivedPaths, v \in StoreValues : StateStore_setDerived(p, v)
  \/ \E i \in 1..Len(LayerIds), s \in OwnSuffixes : LayerContext_setOwn(LayerIds[i], s, Num(MaxNum))
  \/ \E i \in 1..Len(LayerIds), s \in OwnSuffixes, v \in OwnPartials : LayerContext_patchOwn(LayerIds[i], s, v)

(***************************************************************************)
(* An exception that leaves the running tick() call: its locals are gone.  *)
(* When the call was made from a hook of another tick() call, that call    *)
(* sees the exception.                                                     *)
(***************************************************************************)
TickAbort ==
  IF tick.pc = "idle" THEN UNCHANGED tickVars
  ELSE IF outerTicks = <<>> THEN tick' = TickIdle /\ outerTicks' = <<>>
  ELSE /\ tick' = [Head(outerTicks) EXCEPT !.hookPc = Head(outerTicks).pc, !.pc = "thrown"]
       /\ outerTicks' = Tail(outerTicks)

\* a tick() call returns to its caller
TickPop ==
  IF outerTicks = <<>> THEN tick' = TickIdle /\ outerTicks' = <<>>
  ELSE tick' = Head(outerTicks) /\ outerTicks' = Tail(outerTicks)

(***************************************************************************)
(* EventBus.js: publish, subscribe, unsubscribe.                           *)
(***************************************************************************)
\* the number of the running dispatch cycle, 0 outside dispatchQueued()
CycleNow == IF disp.pc = "idle" THEN 0 ELSE cycleNo

\* publish on a queue q: [ok, queue, nextSeq]; ok is FALSE when publish raises
publishResult(q, seq, event, allowed) ==
  LET n == normalizeEvent(event, allowed)
      ok == n.ok /\ (strictValidation => validateAgainstCatalog(n.event))
  IN [ok |-> ok,
      queue |-> IF ok
                THEN Append(q, [type |-> n.event.type, payload |-> n.event.payload,
                                preservedKeys |-> n.event.preservedKeys,
                                phase |-> n.event.phase, seq |-> seq, cyc |-> CycleNow])
                ELSE q,
      nextSeq |-> IF ok THEN seq + 1 ELSE seq]

EventBus_accepts(event) == publishResult(queue, nextSeq, event, allowedPhase).ok

\* the events the unlock evaluator has published
UnlockedCount == Cardinality({ r \in DOMAIN unlockedByRef : unlockedByRef[r] })

PublishBudgetLeft == nextSeq <= MaxPublished + UnlockedCount

SubscribeBudgetLeft ==
  nextToken <= MaxTokens + Len(runtimeSubscriptionTokens) + Len(layerEventSubscriptionTokens)

EventBus_publish_sync(event) ==
  LET r == publishResult(queue, nextSeq, event, allowedPhase)
  IN /\ queue' = queue
     /\ nextSeq' = r.nextSeq
     /\ invocations' = IF r.ok THEN invocations + Len(subscribers[event.type]) ELSE invocations
     /\ lastOp' = [op |-> "publish", path |-> <<event.type>>, ok |-> r.ok]

EventBus_publish(event) ==
  LET r == publishResult(queue, nextSeq, event, allowedPhase)
  IN /\ queue' = r.queue
     /\ nextSeq' = r.nextSeq
     /\ invocations' = invocations
     /\ lastOp' = [op |-> "publish", path |-> <<event.type>>, ok |-> r.ok]

\* the token is the position in the list: a token is issued again
EventBus_subscribe_reuse(eventType, handler) ==
  /\ subscribers' = [subscribers EXCEPT ![eventType] =
        Append(@, [token |-> Len(@) + 1, handler |-> handler, born |-> CycleNow])]
  /\ nextToken' = nextToken + 1
  /\ lastOp' = [op |-> "subscribe", path |-> <<eventType>>, ok |-> TRUE]

EventBus_subscribe(eventType, handler) ==
  /\ subscribers' = [subscribers EXCEPT ![eventType] =
        Append(@, [token |-> nextToken, handler |-> handler, born |-> CycleNow])]
  /\ nextToken' = nextToken + 1
  /\ lastOp' = [op |-> "subscribe", path |-> <<eventType>>, ok |-> TRUE]

HasToken(token) == \E t \in EventTypes : \E i \in 1..Len(subscribers[t]) : subscribers[t][i].token = token

EventBus_unsubscribe(token) ==
  /\ subscribers' = [t \in EventTypes |-> SelectSeq(subscribers[t], LAMBDA sub : sub.token # token)]
  /\ lastOp' = [op |-> "unsubscribe", path |-> <<>>, ok |-> HasToken(token)]

(***************************************************************************)
(* EventBus.js: dispatchQueued, one step per loop position.                *)
(***************************************************************************)
CurrentEvent_lifo == disp.dispatchQueue[Len(disp.dispatchQueue) + 1 - disp.idx]

CurrentEvent == disp.dispatchQueue[disp.idx]

CurrentSubscriber == disp.handlers[disp.hidx]

\* the guardrail is never applied
exceedsEventLimit_off(processedEvents, limit) == FALSE

exceedsEventLimit_late(processedEvents, limit) == processedEvents > limit + 1

exceedsEventLimit(processedEvents, limit) == processedEvents > limit

cycleAllowed_single(pending, cyclesProcessed, limit) == Len(pending) > 0 /\ cyclesProcessed < 1

cycleAllowed_extra(pending, cyclesProcessed, limit) == Len(pending) > 0 /\ cyclesProcessed <= limit

cycleAllowed(pending, cyclesProcessed, limit) == Len(pending) > 0 /\ cyclesProcessed < limit

dispatchHandlers_live(snapshot, eventType) == subscribers[eventType]

dispatchHandlers(snapshot, eventType) == snapshot[eventType]

\* an exception leaves dispatchQueued(), and the tick() that called it
DispatchAbort ==
  /\ disp' = DispatchIdle
  /\ cycleStartSubs' = EmptySubscribers
  /\ doneForEvent' = <<>>
  /\ TickAbort

\* dispatchQueued() is called on a bus that is not dispatching
EventBus_dispatchQueued ==
  /\ disp.pc = "idle"
  /\ tick.pc = "idle"
  /\ disp' = [DispatchIdle EXCEPT !.pc = "loop"]
  /\ lastOp' = [op |-> "dispatchQueued", path |-> <<"call">>, ok |-> TRUE]
  /\ UNCHANGED <<storeVars, busConfig, allowedPhase, queue, subscribers, nextToken,
                 lastDispatchReport, busHistory, engineVars, tickVars>>

Dispatch_startCycle ==
  /\ disp.pc = "loop"
  /\ cycleAllowed(queue, disp.cyclesProcessed, maxDispatchCyclesPerTick)
  /\ disp' = [disp EXCEPT !.cyclesProcessed = @ + 1, !.dispatchQueue = queue, !.idx = 1,
                          !.snapshot = subscribers, !.pc = "event"]
  /\ queue' = <<>>
  /\ cycleNo' = cycleNo + 1
  /\ cycleStartSubs' = subscribers
  /\ deferred' = <<>>
  /\ lastOp' = [op |-> "dispatchQueued", path |-> <<"cycle">>, ok |-> TRUE]
  /\ UNCHANGED <<storeVars, busConfig, allowedPhase, subscribers, nextToken, lastDispatchReport,
                 nextSeq, invocations, lastInv, doneForEvent, engineVars, tickVars>>

\* the report is written and dispatchQueued() returns; the tick() that
\* called it stores the result in its summary
Dispatch_return ==
  /\ disp.pc = "loop"
  /\ ~cycleAllowed(queue, disp.cyclesProcessed, maxDispatchCyclesPerTick)
  /\ lastDispatchReport' =
       [cyclesProcessed |-> disp.cyclesProcessed, eventsProcessed |-> disp.processedEvents,
        deliveredHandlers |-> disp.delivered, deferredEvents |-> Len(queue),
        deferredDueToCycleLimit |-> Len(queue) > 0]
  /\ disp' = DispatchIdle
  /\ cycleStartSubs' = EmptySubscribers
  /\ doneForEvent' = <<>>
  /\ deferred' = Seqs(queue)
  /\ tick' = IF tick.pc = "event-dispatch"
             THEN [tick EXCEPT !.pc = "dispatched",
                               !.summary.dispatchedHandlers = disp.delivered,
                               !.summary.dispatch = lastDispatchReport']
             ELSE tick
  /\ outerTicks' = outerTicks
  /\ lastOp' = [op |-> "dispatchQueued", path |-> <<"return">>, ok |-> TRUE]
  /\ UNCHANGED <<storeVars, busConfig, allowedPhase, queue, subscribers, nextToken,
                 nextSeq, cycleNo, invocations, lastInv, engineVars>>

Dispatch_processEvent ==
  /\ disp.pc = "event"
  /\ disp.idx <= Len(disp.dispatchQueue)
  /\ IF exceedsEventLimit(disp.processedEvents + 1, maxEventsPerTick)
     THEN /\ DispatchAbort
          /\ lastOp' = [op |-> "dispatchQueued", path |-> <<"maxEventsPerTick">>, ok |-> FALSE]
     ELSE /\ disp' = [disp EXCEPT !.processedEvents = @ + 1,
                                  !.handlers = dispatchHandlers(disp.snapshot, CurrentEvent.type),
                                  !.hidx = 1, !.pc = "handlers"]
          /\ doneForEvent' = <<>>
          /\ cycleStartSubs' = cycleStartSubs
          /\ lastOp' = [op |-> "dispatchQueued", path |-> <<"event">>, ok |-> TRUE]
          /\ UNCHANGED tickVars
  /\ UNCHANGED <<storeVars, busConfig, allowedPhase, queue, subscribers, nextToken,
                 lastDispatchReport, nextSeq, cycleNo, invocations, lastInv, deferred, engineVars>>

Dispatch_endCycle ==
  /\ disp.pc = "event"
  /\ disp.idx > Len(disp.dispatchQueue)
  /\ disp' = [disp EXCEPT !.pc = "loop"]
  /\ lastOp' = [op |-> "dispatchQueued", path |-> <<"cycle-end">>, ok |-> TRUE]
  /\ UNCHANGED <<storeVars, busConfig, allowedPhase, queue, subscribers, nextToken,
                 lastDispatchReport, busHistory, engineVars, tickVars>>

Dispatch_invoke ==
  /\ disp.pc = "handlers"
  /\ disp.hidx <= Len(disp.handlers)
  /\ disp' = [disp EXCEPT !.pc = "handler",
                          !.ops = HandlerScript(CurrentSubscriber.handler, CurrentEvent)]
  /\ invocations' = invocations + 1
  /\ lastInv' = [seq |-> CurrentEvent.seq, token |-> CurrentSubscriber.token]
  /\ doneForEvent' = Append(doneForEvent, CurrentSubscriber.token)
  /\ lastOp' = [op |-> "handler", path |-> <<CurrentEvent.type>>, ok |-> TRUE]
  /\ UNCHANGED <<storeVars, busConfig, allowedPhase, queue, subscribers, nextToken,
                 lastDispatchReport, nextSeq, cycleNo, cycleStartSubs, deferred, engineVars,
                 tickVars>>

Dispatch_eventDone ==
  /\ disp.pc = "handlers"
  /\ disp.hidx > Len(disp.handlers)
  /\ disp' = [disp EXCEPT !.idx = @ + 1, !.pc = "event"]
  /\ lastOp' = [op |-> "dispatchQueued", path |-> <<"event-end">>, ok |-> TRUE]
  /\ UNCHANGED <<storeVars, busConfig, allowedPhase, queue, subscribers, nextToken,
                 lastDispatchReport, busHistory, engineVars, tickVars>>

(***************************************************************************)
(* The calls a running handler makes, and its return.                      *)
(***************************************************************************)
InHandler(op) == disp.pc = "handler" /\ disp.ops # <<>> /\ Head(disp.ops).op = op

Handler_publish ==
  /\ InHandler("publish")
  /\ PublishBudgetLeft
  /\ LET event == [type |-> Head(disp.ops).arg, payload |-> CurrentEvent.payload, phase |-> Null]
     IN /\ EventBus_publish(event)
        /\ IF EventBus_accepts(event)
           THEN /\ disp' = [disp EXCEPT !.ops = Tail(@)]
                /\ UNCHANGED <<cycleStartSubs, doneForEvent, tickVars>>
           ELSE DispatchAbort
  /\ UNCHANGED <<storeVars, busConfig, allowedPhase, subscribers, nextToken,
                 lastDispatchReport, cycleNo, lastInv, deferred, engineVars>>

Handler_subscribe ==
  /\ InHandler("subscribe")
  /\ SubscribeBudgetLeft
  /\ EventBus_subscribe(Head(disp.ops).arg, "noop")
  /\ disp' = [disp EXCEPT !.ops = Tail(@)]
  /\ UNCHANGED <<storeVars, busConfig, allowedPhase, queue, lastDispatchReport, busHistory,
                 engineVars, tickVars>>

LastToken(eventType) ==
  IF subscribers[eventType] = <<>> THEN 0
  ELSE subscribers[eventType][Len(subscribers[eventType])].token

Handler_unsubscribe ==
  /\ InHandler("unsubscribe")
  /\ EventBus_unsubscribe(LastToken(Head(disp.ops).arg))
  /\ disp' = [disp EXCEPT !.ops = Tail(@)]
  /\ UNCHANGED <<storeVars, busConfig, allowedPhase, queue, nextToken, lastDispatchReport,
                 busHistory, engineVars, tickVars>>

Handler_return ==
  /\ disp.pc = "handler"
  /\ disp.ops = <<>>
  /\ disp' = [disp EXCEPT !.delivered = @ + 1, !.hidx = @ + 1, !.pc = "handlers"]
  /\ lastOp' = [op |-> "handler", path |-> <<"return">>, ok |-> TRUE]
  /\ UNCHANGED <<storeVars, busConfig, allowedPhase, queue, subscribers, nextToken,
                 lastDispatchReport, busHistory, engineVars, tickVars>>

\* the loop of dispatchQueued and the return of a handler
DispatchLoop ==
  \/ Dispatch_startCycle
  \/ Dispatch_return
  \/ Dispatch_processEvent
  \/ Dispatch_endCycle
  \/ Dispatch_invoke
  \/ Dispatch_eventDone
  \/ Handler_return

(***************************************************************************)
(* A bus used on its own: the caller publishes, subscribes, unsubscribes   *)
(* and calls dispatchQueued() between dispatches.                          *)
(***************************************************************************)
BusEventTypes == {"LAYER_RESET_REQUESTED", "PING"}

BusPublishInputs ==
  { [type |-> t, payload |-> "idle", phase |-> Null] : t \in BusEventTypes \cup {""} }

\* the subscriptions the caller makes: [type, handler]
BusSubscriptions ==
  { [type |-> "LAYER_RESET_REQUESTED", handler |-> h] : h \in {"noop", "republish"} }

\* the subscriptions of a caller whose handlers subscribe and unsubscribe
SnapshotSubscriptions ==
  { [type |-> "LAYER_RESET_REQUESTED", handler |-> h] : h \in {"noop", "lateSub", "unsubLast"} }

\* the guardrails a bus is constructed with
GuardrailOptions ==
  { [maxEventsPerTick |-> e, maxDispatchCyclesPerTick |-> c] : e \in {1, 2}, c \in {1, 2} }

Caller_publish(event) ==
  /\ disp.pc = "idle"
  /\ PublishBudgetLeft
  /\ EventBus_publish(event)
  /\ UNCHANGED <<storeVars, busConfig, allowedPhase, subscribers, nextToken, lastDispatchReport,
                 disp, cycleNo, lastInv, cycleStartSubs, doneForEvent, deferred, engineVars,
                 tickVars>>

Caller_subscribe(eventType, handler) ==
  /\ disp.pc = "idle"
  /\ SubscribeBudgetLeft
  /\ EventBus_subscribe(eventType, handler)
  /\ UNCHANGED <<storeVars, busConfig, allowedPhase, queue, lastDispatchReport, disp, busHistory,
                 engineVars, tickVars>>

Caller_unsubscribe(token) ==
  /\ disp.pc = "idle"
  /\ EventBus_unsubscribe(token)
  /\ UNCHANGED <<storeVars, busConfig, allowedPhase, queue, nextToken, lastDispatchReport, disp,
                 busHistory, engineVars, tickVars>>

BusNext ==
  \/ \E event \in BusPublishInputs : Caller_publish(event)
  \/ \E sub \in BusSubscriptions : Caller_subscribe(sub.type, sub.handler)
  \/ \E token \in 1..MaxTokens : Caller_unsubscribe(token)
  \/ EventBus_dispatchQueued
  \/ DispatchLoop
  \/ Handler_publish

SnapshotNext ==
  \/ \E t \in BusEventTypes : Caller_publish([type |-> t, payload |-> "idle", phase |-> Null])
  \/ \E sub \in SnapshotSubscriptions : Caller_subscribe(sub.type, sub.handler)
  \/ \E token \in 1..MaxTokens : Caller_unsubscribe(token)
  \/ EventBus_dispatchQueued
  \/ DispatchLoop
  \/ Handler_subscribe
  \/ Handler_unsubscribe

(***************************************************************************)
(* LayerResetService.execute as a pure result: [ok, canonical, queue,      *)
(* nextSeq].  The canonical state is replaced before the event is          *)
(* published.                                                              *)
(***************************************************************************)
executeResult(layerId) ==
  IF findLayer(Definition, layerId) = {}
  THEN [ok |-> FALSE, canonical |-> canonicalState, queue |-> queue, nextSeq |-> nextSeq]
  ELSE LET layer == Definition.layers[CHOOSE i \in findLayer(Definition, layerId) :
                                         \A j \in findLayer(Definition, layerId) : i <= j]
           pub == publishResult(queue, nextSeq,
                    [type |-> "LAYER_RESET_EXECUTED", payload |-> layerId,
                     preservedKeys |-> <<getKeepPaths(layer)>>, phase |-> Null],
                    allowedPhase)
       IN [ok |-> pub.ok,
           canonical |-> resetBaseline(Definition.state, canonicalState, getKeepPaths(layer)),
           queue |-> pub.queue, nextSeq |-> pub.nextSeq]

\* the engine's LAYER_RESET_REQUESTED subscriber calls execute
Handler_execute ==
  /\ InHandler("execute")
  /\ PublishBudgetLeft
  /\ LET r == executeResult(Head(disp.ops).arg)
     IN /\ canonicalState' = r.canonical
        /\ queue' = r.queue
        /\ nextSeq' = r.nextSeq
        /\ lastOp' = [op |-> "execute", path |-> <<Head(disp.ops).arg>>, ok |-> r.ok]
        /\ IF r.ok
           THEN /\ disp' = [disp EXCEPT !.ops = Tail(@)]
                /\ UNCHANGED <<cycleStartSubs, doneForEvent, tickVars>>
           ELSE DispatchAbort
  /\ UNCHANGED <<derivedState, busConfig, allowedPhase, subscribers, nextToken,
                 lastDispatchReport, cycleNo, invocations, lastInv, deferred, engineVars>>

(***************************************************************************)
(* intentCatalog and IntentRouter.route.  An intent is [type, targetRef,   *)
(* layerId]; "" is an absent payload field.                                *)
(***************************************************************************)
INTENT_CATALOG ==
  [START_JOB |-> [required |-> "targetRef", routingTarget |-> "progressLayer",
                  lockCheckPolicy |-> "reject-if-target-locked"],
   STOP_JOB |-> [required |-> "targetRef", routingTarget |-> "progressLayer",
                 lockCheckPolicy |-> "reject-if-target-locked"],
   REQUEST_LAYER_RESET |-> [required |-> "layerId", routingTarget |-> "LayerResetService",
                            lockCheckPolicy |-> "reject-if-target-locked"],
   PULL_GACHA |-> [required |-> "targetRef", routingTarget |-> "gachaLayer",
                   lockCheckPolicy |-> "reject-if-target-locked"],
   ACTIVATE_MINIGAME |-> [required |-> "targetRef", routingTarget |-> "minigameLayer",
                          lockCheckPolicy |-> "reject-if-target-locked"]]

\* names that every object literal inherits from Object.prototype
ObjectPrototypeKeys == {"constructor", "toString", "valueOf", "hasOwnProperty"}

\* INTENT_CATALOG[intentType] || null: "entry" for a catalog entry, "inherited"
\* for the value of an inherited property, which is truthy and has neither
\* validatePayload nor lockCheckPolicy, and Null otherwise
getIntentCatalogEntry(intentType) ==
  IF intentType \in DOMAIN INTENT_CATALOG THEN "entry"
  ELSE IF intentType \in ObjectPrototypeKeys THEN "inherited"
  ELSE Null

validateIntentPayload(intent) ==
  IF INTENT_CATALOG[intent.type].required = "targetRef" THEN intent.targetRef # ""
  ELSE intent.layerId # ""

\* the isNodeLocked option of the router; createRuntimeSystems gives
\* () => false when the host gives none, which is lockedNodes = {}
isNodeLocked(targetRef) == targetRef \in lockedNodes

\* the intent types #wireRuntimeSystems registers a handler for
RegisteredIntentTypes == {"REQUEST_LAYER_RESET"}

\* the code of the result of route, or "throw" when route raises
route(intent) ==
  IF intent.type = "" THEN "throw"
  ELSE IF getIntentCatalogEntry(intent.type) = Null THEN "INTENT_CATALOG_MISSING"
  ELSE IF getIntentCatalogEntry(intent.type) = "inherited"
  THEN IF strictValidation THEN "throw"
       ELSE IF intent.type \notin handlers THEN "INTENT_HANDLER_MISSING"
       ELSE "INTENT_ROUTED"
  ELSE IF strictValidation /\ ~validateIntentPayload(intent) THEN "INTENT_PAYLOAD_INVALID"
  ELSE IF /\ INTENT_CATALOG[intent.type].lockCheckPolicy = "reject-if-target-locked"
          /\ intent.targetRef # ""
          /\ isNodeLocked(intent.targetRef)
  THEN "INTENT_TARGET_LOCKED"
  ELSE IF intent.type \notin handlers THEN "INTENT_HANDLER_MISSING"
  ELSE "INTENT_ROUTED"

(***************************************************************************)
(* UnlockEvaluator.evaluateAll from target i on.  acc is [ok,              *)
(* unlockedByRef, queue, nextSeq, unlockedRefs, transitions]; ok becomes   *)
(* FALSE when the call raises, and the evaluation stops there.             *)
(***************************************************************************)
RECURSIVE evaluateAllFrom(_, _, _, _, _)
evaluateAllFrom(i, acc, state, phase, allowed) ==
  IF i > Len(Targets) \/ ~acc.ok THEN acc
  ELSE LET target == Targets[i]
           transition == evaluateUnlockTransition(acc.unlockedByRef[target.ref], target.ast,
                                                  state, phase)
           pub == IF transition.ok /\ transition.transitioned
                  THEN publishResult(acc.queue, acc.nextSeq,
                         [type |-> "UNLOCKED", payload |-> target.ref, phase |-> Null], allowed)
                  ELSE [ok |-> TRUE, queue |-> acc.queue, nextSeq |-> acc.nextSeq]
       IN IF ~transition.ok THEN [acc EXCEPT !.ok = FALSE]
          ELSE evaluateAllFrom(i + 1,
                 [ok |-> pub.ok,
                  unlockedByRef |-> [acc.unlockedByRef EXCEPT ![target.ref] = transition.unlocked],
                  queue |-> pub.queue,
                  nextSeq |-> pub.nextSeq,
                  unlockedRefs |-> IF transition.unlocked
                                   THEN Append(acc.unlockedRefs, target.ref)
                                   ELSE acc.unlockedRefs,
                  transitions |-> IF transition.transitioned
                                  THEN Append(acc.transitions, target.ref)
                                  ELSE acc.transitions],
                 state, phase, allowed)

\* options.phase || 'end-of-tick': a missing or falsy phase is the default
optionsPhase(phase) == IF phase = Null \/ phase = "" THEN "end-of-tick" ELSE phase

evaluateAll(phase, allowed) ==
  evaluateAllFrom(1,
    [ok |-> TRUE, unlockedByRef |-> unlockedByRef, queue |-> queue, nextSeq |-> nextSeq,
     unlockedRefs |-> <<>>, transitions |-> <<>>],
    canonicalState, optionsPhase(phase), allowed)

\* the summary evaluateAll returns
unlockSummary(acc) ==
  [unlockedRefs |-> acc.unlockedRefs, unlocked |-> acc.unlockedByRef,
   transitions |-> acc.transitions]

\* an object kept in the store as it is
Opaque(v) == [t |-> "ref", v |-> v]

(***************************************************************************)
(* GameEngine.js: initialize.                                              *)
(***************************************************************************)
EventCatalogOrder == <<"UNLOCKED", "LAYER_RESET_REQUESTED", "LAYER_RESET_EXECUTED">>

instantiateLayersFromDefinition_reversed(layers) ==
  [i \in 1..Len(layers) |->
     [id |-> layers[Len(layers) + 1 - i].id, type |-> layers[Len(layers) + 1 - i].type]]

instantiateLayersFromDefinition(layers) ==
  [i \in 1..Len(layers) |-> [id |-> layers[i].id, type |-> layers[i].type]]

\* the subscriptions of #wireRuntimeSystems and #wireLayerEventSubscriptions
wiredSubscriptions(instances) ==
  <<[type |-> "LAYER_RESET_REQUESTED", handler |-> "LayerResetService"]>>
  \o Concat([i \in 1..Len(instances) |->
       LET types == SelectSeq(EventCatalogOrder,
                      LAMBDA t : instances[i].type \in EVENT_CATALOG[t].consumers)
       IN [k \in 1..Len(types) |-> [type |-> types[k], handler |-> "Layer:" \o instances[i].id]]])

subscribersOf(list) ==
  [t \in EventTypes |->
     LET tokens == SelectSeq([k \in 1..Len(list) |-> k], LAMBDA k : list[k].type = t)
     IN [n \in 1..Len(tokens) |->
           [token |-> tokens[n], handler |-> list[tokens[n]].handler, born |-> 0]]]

\* initialize(rawDefinition) with a definition that parseGameDefinition
\* accepts: the fields of the engine are assigned one after the other, and an
\* exception leaves those already assigned
initializeValid ==
  /\ definition' = Definition
  /\ canonicalState' = Definition.state
  /\ derivedState' = EmptyObj
  /\ allowedPhase' = Null
  /\ queue' = <<>>
  /\ lastDispatchReport' = InitialDispatchReport
  /\ disp' = DispatchIdle
  /\ nextSeq' = 1 /\ cycleNo' = 0 /\ invocations' = 0 /\ lastInv' = [seq |-> 0, token |-> 0]
  /\ cycleStartSubs' = EmptySubscribers /\ doneForEvent' = <<>> /\ deferred' = <<>>
  /\ unlockedByRef' = [r \in TargetRefs |-> FALSE]
  /\ IF InSeq("progressLayer", factoriesByType)
     THEN /\ subscribers' = EmptySubscribers
          /\ nextToken' = 1
          /\ handlers' = {}
          /\ lastOp' = [op |-> "initialize", path |-> <<"duplicate">>, ok |-> FALSE]
          /\ UNCHANGED <<factoriesByType, layerInstances, runtimeSubscriptionTokens,
                         layerEventSubscriptionTokens, initialized>>
     ELSE LET instances == instantiateLayersFromDefinition(Definition.layers)
              wired == wiredSubscriptions(instances)
          IN /\ factoriesByType' = Append(factoriesByType, "progressLayer")
             /\ layerInstances' = instances
             /\ subscribers' = subscribersOf(wired)
             /\ nextToken' = Len(wired) + 1
             /\ handlers' = RegisteredIntentTypes
             /\ runtimeSubscriptionTokens' = Append(runtimeSubscriptionTokens, 1)
             /\ layerEventSubscriptionTokens' =
                  layerEventSubscriptionTokens \o [k \in 1..(Len(wired) - 1) |-> k + 1]
             /\ initialized' = TRUE
             /\ lastOp' = [op |-> "initialize", path |-> <<>>, ok |-> TRUE]
  /\ UNCHANGED <<busConfig, intentQueue, lastTickSummary, currentPhase, phaseCursor, tickCalls,
                 lockedNodes, handlerCalls, tickVars>>

\* initialize(rawDefinition); parseGameDefinition raises for a definition
\* with validation issues before any field is assigned
initialize(rawDefinition) ==
  IF rawDefinition = "invalid"
  THEN /\ lastOp' = [op |-> "initialize", path |-> <<"invalid">>, ok |-> FALSE]
       /\ UNCHANGED <<storeVars, busConfig, busVars, busHistory, engineVars, tickVars>>
  ELSE initializeValid

\* the host initializes a new engine
GameEngine_initialize ==
  /\ tick.pc = "idle"
  /\ definition = NullRec
  /\ initialize("valid")

\* no token is unsubscribed
unsubscribeAll_none(subs, tokens) == subs

\* the subscribers left when the tokens are unsubscribed one after the other
RECURSIVE unsubscribeAll(_, _)
unsubscribeAll(subs, tokens) ==
  IF tokens = <<>> THEN subs
  ELSE unsubscribeAll([t \in EventTypes |->
                         SelectSeq(subs[t], LAMBDA sub : sub.token # Head(tokens))],
                      Tail(tokens))

\* the layers in the order in which destroy() calls their destroy()
destroyOrder(instances) == [i \in 1..Len(instances) |-> instances[i].id]

\* destroy(); the destroy() calls of the layers are recorded
destroy ==
  /\ subscribers' = unsubscribeAll(subscribers,
                                   runtimeSubscriptionTokens \o layerEventSubscriptionTokens)
  /\ runtimeSubscriptionTokens' = <<>>
  /\ layerEventSubscriptionTokens' = <<>>
  /\ layerInstances' = <<>>
  /\ initialized' = FALSE
  /\ definition' = NullRec
  /\ lastOp' = [op |-> "destroy", path |-> destroyOrder(layerInstances), ok |-> TRUE]
  /\ UNCHANGED <<storeVars, busConfig, allowedPhase, queue, nextToken, lastDispatchReport, disp,
                 busHistory, factoriesByType, intentQueue, lastTickSummary, currentPhase,
                 phaseCursor, unlockedByRef, tickCalls, handlers, lockedNodes, handlerCalls,
                 tickVars>>

\* the host calls destroy() between two ticks
GameEngine_destroy ==
  /\ tick.pc = "idle"
  /\ disp.pc = "idle"
  /\ destroy

assertInitialized == initialized /\ definition # NullRec

IntentInputs == { [type |-> "REQUEST_LAYER_RESET", targetRef |-> "", layerId |-> "idle"] }

\* the effect of enqueueIntent(intent)
enqueueIntent(intent) ==
  /\ intentQueue' = IF assertInitialized THEN Append(intentQueue, intent) ELSE intentQueue
  /\ lastOp' = [op |-> "enqueueIntent", path |-> <<>>, ok |-> assertInitialized]
  /\ UNCHANGED <<storeVars, busConfig, busVars, busHistory, initialized, definition,
                 factoriesByType, layerInstances, runtimeSubscriptionTokens,
                 layerEventSubscriptionTokens, lastTickSummary, currentPhase, phaseCursor,
                 unlockedByRef, tickCalls, handlers, lockedNodes, handlerCalls, tickVars>>

\* the host calls enqueueIntent between two ticks
GameEngine_enqueueIntent(intent) ==
  /\ tick.pc = "idle"
  /\ Len(intentQueue) < MaxIntents
  /\ enqueueIntent(intent)

(***************************************************************************)
(* GameEngine.js: the phase gate.                                          *)
(***************************************************************************)
enterPhase_noGate(cursor, phase) == TRUE

\* TRUE when #enterPhase(phase) does not raise with phaseCursor = cursor
enterPhase(cursor, phase) ==
  cursor + 2 \in DOMAIN ENGINE_PHASE_SEQUENCE /\ ENGINE_PHASE_SEQUENCE[cursor + 2] = phase

\* #enterPhase raises: the tick() call ends and nothing else changes
PhaseOrderError(phase) ==
  /\ TickAbort
  /\ lastOp' = [op |-> "enterPhase", path |-> <<phase, "phase-order">>, ok |-> FALSE]
  /\ UNCHANGED <<storeVars, busConfig, busVars, busHistory, engineVars>>

\* the assignments of #enterPhase(phase)
Entered(phase) ==
  /\ phaseCursor' = phaseCursor + 1
  /\ currentPhase' = phase
  /\ allowedPhase' = phase

engineSetup ==
  <<initialized, definition, factoriesByType, layerInstances, runtimeSubscriptionTokens,
    layerEventSubscriptionTokens, handlers, lockedNodes>>

\* what no step of a running tick() changes
engineFixed == <<engineSetup, tickCalls, handlerCalls>>

(***************************************************************************)
(* GameEngine.js: tick(), one step per phase and per loop iteration.       *)
(***************************************************************************)
\* the body of tick() up to the start of the loop of #runInputPhase
TickBegin(callers) ==
  IF ~assertInitialized
  THEN /\ lastOp' = [op |-> "tick", path |-> <<"not-initialized">>, ok |-> FALSE]
       /\ UNCHANGED <<storeVars, busConfig, busVars, busHistory, engineVars, tickVars>>
  ELSE IF ~enterPhase(-1, "input")
  THEN /\ phaseCursor' = -1
       /\ tick' = tick /\ outerTicks' = outerTicks
       /\ lastOp' = [op |-> "enterPhase", path |-> <<"input", "phase-order">>, ok |-> FALSE]
       /\ UNCHANGED <<storeVars, busConfig, busVars, busHistory, engineSetup, intentQueue,
                      lastTickSummary, currentPhase, unlockedByRef, tickCalls, handlerCalls>>
  ELSE /\ phaseCursor' = 0
       /\ currentPhase' = "input"
       /\ allowedPhase' = "input"
       /\ intentQueue' = <<>>
       /\ tick' = [TickIdle EXCEPT !.pc = "input", !.entered = <<"input">>,
                                   !.queued = intentQueue, !.pending = intentQueue,
                                   !.startSeq = nextSeq, !.startQueued = Len(queue)]
       /\ outerTicks' = callers
       /\ tickCalls' = tickCalls + 1
       /\ lastOp' = [op |-> "enterPhase", path |-> <<"input">>, ok |-> TRUE]
       /\ UNCHANGED <<storeVars, busConfig, queue, subscribers, nextToken, lastDispatchReport,
                      disp, busHistory, engineSetup, lastTickSummary, unlockedByRef,
                      handlerCalls>>

\* the host calls tick()
GameEngine_tick ==
  /\ tick.pc = "idle"
  /\ disp.pc = "idle"
  /\ tickCalls < MaxTicks
  /\ TickBegin(outerTicks)

\* the intent the loop of #runInputPhase routes next
nextIntent_last(pending) == pending[Len(pending)]

nextIntent(pending) == Head(pending)

Tick_routeIntent ==
  /\ tick.pc = "input"
  /\ tick.pending # <<>>
  /\ LET intent == nextIntent(tick.pending)
         code == route(intent)
         pub == publishResult(queue, nextSeq,
                  [type |-> "LAYER_RESET_REQUESTED", payload |-> intent.layerId, phase |-> Null],
                  allowedPhase)
     IN /\ (code = "INTENT_ROUTED") => PublishBudgetLeft
        /\ IF code = "throw"
           THEN /\ TickAbort
                /\ lastOp' = [op |-> "route", path |-> <<"throw">>, ok |-> FALSE]
                /\ UNCHANGED <<queue, nextSeq>>
           ELSE IF code # "INTENT_ROUTED"
           THEN /\ tick' = [tick EXCEPT !.pending = Tail(@),
                                        !.summary.intentsRouted = Append(@, code)]
                /\ outerTicks' = outerTicks
                /\ lastOp' = [op |-> "route", path |-> <<code>>, ok |-> TRUE]
                /\ UNCHANGED <<queue, nextSeq>>
           ELSE /\ queue' = pub.queue
                /\ nextSeq' = pub.nextSeq
                /\ IF pub.ok /\ findLayer(Definition, intent.layerId) # {}
                   THEN /\ tick' = [tick EXCEPT !.pending = Tail(@),
                                                !.summary.intentsRouted = Append(@, code)]
                        /\ outerTicks' = outerTicks
                        /\ lastOp' = [op |-> "route", path |-> <<code>>, ok |-> TRUE]
                   ELSE /\ TickAbort
                        /\ lastOp' = [op |-> "route", path |-> <<code, "error">>, ok |-> FALSE]
        /\ handlerCalls' = IF code = "INTENT_ROUTED" THEN handlerCalls + 1 ELSE handlerCalls
  /\ UNCHANGED <<storeVars, busConfig, allowedPhase, subscribers, nextToken, lastDispatchReport,
                 disp, cycleNo, invocations, lastInv, cycleStartSubs, doneForEvent, deferred,
                 engineSetup, intentQueue, lastTickSummary, currentPhase, phaseCursor,
                 unlockedByRef, tickCalls>>

\* the values the time system returns
Finite(n) == [isFinite |-> TRUE, n |-> n]

NaN == [isFinite |-> FALSE, n |-> 0]

Infinity == [isFinite |-> FALSE, n |-> 1]

DeltaTimes == {Finite(16), Finite(-1), NaN, Infinity}

\* only the non-finite values are rejected
validDeltaTime_finiteOnly(dt) == dt.isFinite

\* Number.isFinite(dt) && dt >= 0
validDeltaTime(dt) == dt.isFinite /\ ~(dt.n < 0)

Tick_timePhase(dt) ==
  /\ tick.pc = "input"
  /\ tick.pending = <<>>
  /\ IF ~enterPhase(phaseCursor, "time") THEN PhaseOrderError("time")
     ELSE /\ Entered("time")
          /\ IF ~validDeltaTime(dt)
             THEN /\ TickAbort
                  /\ lastOp' = [op |-> "enterPhase", path |-> <<"time", "error">>, ok |-> FALSE]
             ELSE /\ tick' = [tick EXCEPT !.pc = "time", !.entered = Append(@, "time"),
                                          !.summary.dt = dt.n]
                  /\ outerTicks' = outerTicks
                  /\ lastOp' = [op |-> "enterPhase", path |-> <<"time">>, ok |-> TRUE]
          /\ UNCHANGED <<storeVars, busConfig, queue, subscribers, nextToken, lastDispatchReport,
                         disp, busHistory, engineFixed, intentQueue, lastTickSummary,
                         unlockedByRef>>

Tick_enterLayerUpdate ==
  /\ tick.pc = "time"
  /\ IF ~enterPhase(phaseCursor, "layer-update") THEN PhaseOrderError("layer-update")
     ELSE /\ Entered("layer-update")
          /\ tick' = [tick EXCEPT !.pc = "layer-update", !.entered = Append(@, "layer-update"),
                                  !.layerIdx = 1]
          /\ outerTicks' = outerTicks
          /\ lastOp' = [op |-> "enterPhase", path |-> <<"layer-update">>, ok |-> TRUE]
          /\ UNCHANGED <<storeVars, busConfig, queue, subscribers, nextToken, lastDispatchReport,
                         disp, busHistory, engineFixed, intentQueue, lastTickSummary,
                         unlockedByRef>>

\* what the onLayerUpdate hook of the host does
HookEffects == {"none", "publish"}

\* one iteration of the loop of #runLayerUpdatePhase
Tick_updateLayer(effect) ==
  /\ tick.pc = "layer-update"
  /\ tick.layerIdx <= Len(definition.layers)
  /\ LET layer == definition.layers[tick.layerIdx]
         layerInstance == layerInstances[tick.layerIdx]
         pub == IF effect = "publish"
                THEN publishResult(queue, nextSeq,
                       [type |-> "LAYER_RESET_REQUESTED", payload |-> layer.id, phase |-> Null],
                       allowedPhase)
                ELSE [ok |-> TRUE, queue |-> queue, nextSeq |-> nextSeq]
     IN /\ (effect = "publish") => PublishBudgetLeft
        /\ queue' = pub.queue
        /\ nextSeq' = pub.nextSeq
        /\ IF pub.ok
           THEN /\ tick' = [tick EXCEPT !.layerIdx = @ + 1,
                                        !.updateCalls = Append(@, layerInstance.id),
                                        !.summary.updatedLayers = Append(@, layer.id)]
                /\ outerTicks' = outerTicks
                /\ lastOp' = [op |-> "layer.update", path |-> <<layerInstance.id>>, ok |-> TRUE]
           ELSE /\ TickAbort
                /\ lastOp' = [op |-> "layer.update", path |-> <<layerInstance.id>>, ok |-> FALSE]
  /\ UNCHANGED <<storeVars, busConfig, allowedPhase, subscribers, nextToken, lastDispatchReport,
                 disp, cycleNo, invocations, lastInv, cycleStartSubs, doneForEvent, deferred,
                 engineVars>>

\* the event-dispatch phase calls dispatchQueued()
Tick_enterDispatch ==
  /\ tick.pc = "layer-update"
  /\ tick.layerIdx > Len(definition.layers)
  /\ IF ~enterPhase(phaseCursor, "event-dispatch") THEN PhaseOrderError("event-dispatch")
     ELSE /\ Entered("event-dispatch")
          /\ disp' = [DispatchIdle EXCEPT !.pc = "loop"]
          /\ tick' = [tick EXCEPT !.pc = "event-dispatch",
                                  !.entered = Append(@, "event-dispatch")]
          /\ outerTicks' = outerTicks
          /\ lastOp' = [op |-> "enterPhase", path |-> <<"event-dispatch">>, ok |-> TRUE]
          /\ UNCHANGED <<storeVars, busConfig, queue, subscribers, nextToken, lastDispatchReport,
                         busHistory, engineFixed, intentQueue, lastTickSummary, unlockedByRef>>

\* #runUnlockEvaluationPhase
Tick_unlockEvaluation ==
  /\ tick.pc = "dispatched"
  /\ IF ~enterPhase(phaseCursor, "unlock-evaluation") THEN PhaseOrderError("unlock-evaluation")
     ELSE LET acc == evaluateAll("end-of-tick", "unlock-evaluation")
          IN /\ Entered("unlock-evaluation")
             /\ unlockedByRef' = acc.unlockedByRef
             /\ queue' = acc.queue
             /\ nextSeq' = acc.nextSeq
             /\ canonicalState' = canonicalState
             /\ IF acc.ok
                THEN /\ derivedState' = writePath(derivedState, <<"unlocks">>,
                                                  Opaque(unlockSummary(acc)))
                     /\ tick' = [tick EXCEPT !.pc = "unlock-evaluation",
                                             !.entered = Append(@, "unlock-evaluation"),
                                             !.summary.unlocks = unlockSummary(acc)]
                     /\ outerTicks' = outerTicks
                     /\ lastOp' = [op |-> "enterPhase", path |-> <<"unlock-evaluation">>,
                                   ok |-> TRUE]
                ELSE /\ derivedState' = derivedState
                     /\ TickAbort
                     /\ lastOp' = [op |-> "enterPhase", path |-> <<"unlock-evaluation", "error">>,
                                   ok |-> FALSE]
             /\ UNCHANGED <<busConfig, subscribers, nextToken, lastDispatchReport, disp, cycleNo,
                            invocations, lastInv, cycleStartSubs, doneForEvent, deferred,
                            engineFixed, intentQueue, lastTickSummary>>

\* the render phase with the default onRenderCompose
Tick_render ==
  /\ tick.pc = "unlock-evaluation"
  /\ IF ~enterPhase(phaseCursor, "render") THEN PhaseOrderError("render")
     ELSE /\ Entered("render")
          /\ tick' = [tick EXCEPT !.pc = "render", !.entered = Append(@, "render"),
                                  !.summary.ui = [layers |->
                                     compose(definition, tick.summary.unlocks.unlockedRefs)]]
          /\ outerTicks' = outerTicks
          /\ lastOp' = [op |-> "enterPhase", path |-> <<"render">>, ok |-> TRUE]
          /\ UNCHANGED <<storeVars, busConfig, queue, subscribers, nextToken, lastDispatchReport,
                         disp, busHistory, engineFixed, intentQueue, lastTickSummary,
                         unlockedByRef>>

\* #exitPhaseLoop and the return of tick()
Tick_return ==
  /\ tick.pc = "render"
  /\ IF phaseCursor # Len(ENGINE_PHASE_SEQUENCE) - 1
     THEN /\ TickAbort
          /\ lastOp' = [op |-> "tick", path |-> <<"return", "phase-order">>, ok |-> FALSE]
          /\ UNCHANGED <<allowedPhase, currentPhase, lastTickSummary>>
     ELSE /\ currentPhase' = Null
          /\ allowedPhase' = Null
          /\ lastTickSummary' = tick.summary
          /\ TickPop
          /\ lastOp' = [op |-> "tick", path |-> <<"return">>, ok |-> TRUE]
  /\ UNCHANGED <<storeVars, busConfig, queue, subscribers, nextToken, lastDispatchReport, disp,
                 busHistory, engineFixed, intentQueue, phaseCursor, unlockedByRef>>

(***************************************************************************)
(* tick() called from a hook of a running tick(): the onLayerUpdate hook   *)
(* after a layer update, the onUnlockEvaluation hook, or the render hook.  *)
(***************************************************************************)
HookPcs == {"layer-update", "unlock-evaluation", "render"}

Hook_tick ==
  /\ tick.pc \in HookPcs
  /\ tick.pc = "layer-update" => tick.layerIdx > 1
  /\ ~tick.reentered
  /\ Len(outerTicks) < MaxDepth
  /\ tickCalls < MaxTicks
  /\ TickBegin(<<[tick EXCEPT !.reentered = TRUE]>> \o outerTicks)

\* the hook catches the exception of the tick() it called and goes on
Hook_catch ==
  /\ tick.pc = "thrown"
  /\ tick' = [tick EXCEPT !.pc = tick.hookPc]
  /\ outerTicks' = outerTicks
  /\ lastOp' = [op |-> "hook", path |-> <<"catch">>, ok |-> TRUE]
  /\ UNCHANGED <<storeVars, busConfig, busVars, busHistory, engineVars>>

\* the hook lets the exception through: the calling tick() ends as well
Hook_rethrow ==
  /\ tick.pc = "thrown"
  /\ TickAbort
  /\ lastOp' = [op |-> "hook", path |-> <<"rethrow">>, ok |-> FALSE]
  /\ UNCHANGED <<storeVars, busConfig, busVars, busHistory, engineVars>>

(***************************************************************************)
(* The host between two ticks.                                             *)
(***************************************************************************)
HostIdle == initialized /\ tick.pc = "idle" /\ disp.pc = "idle"

HostPaths == { <<"resources", "xp">>, <<"resources", "gold">> }

HostPartials == { Obj([k \in {"xp"} |-> Num(MaxNum)]) }

HostLayerIds == {"idle", "ghost"}

\* the calls of the host are recorded without their arguments
HostOp == [op |-> "host", path |-> <<>>, ok |-> TRUE]

Host_set(path, value) ==
  /\ HostIdle
  /\ StateStore_set(path, value)
  /\ lastOp' = HostOp
  /\ UNCHANGED <<busConfig, busVars, busHistory, engineVars, tickVars>>

Host_patch(path, partial) ==
  /\ HostIdle
  /\ StateStore_patch(path, partial)
  /\ lastOp' = HostOp
  /\ UNCHANGED <<busConfig, busVars, busHistory, engineVars, tickVars>>

\* layerResetService.execute called by the host
Host_execute(layerId) ==
  /\ HostIdle
  /\ PublishBudgetLeft
  /\ LET r == executeResult(layerId)
     IN /\ canonicalState' = r.canonical
        /\ queue' = r.queue
        /\ nextSeq' = r.nextSeq
        /\ lastOp' = HostOp
  /\ UNCHANGED <<derivedState, busConfig, allowedPhase, subscribers, nextToken,
                 lastDispatchReport, disp, cycleNo, invocations, lastInv, cycleStartSubs,
                 doneForEvent, deferred, engineVars, tickVars>>

TickStep ==
  \/ \E dt \in DeltaTimes : Tick_timePhase(dt)
  \/ Tick_enterLayerUpdate
  \/ \E effect \in HookEffects : Tick_updateLayer(effect)
  \/ Tick_enterDispatch
  \/ Tick_unlockEvaluation
  \/ Tick_render
  \/ Tick_return

Next ==
  \/ GameEngine_initialize
  \/ \E intent \in IntentInputs : GameEngine_enqueueIntent(intent)
  \/ GameEngine_tick
  \/ Tick_routeIntent
  \/ TickStep
  \/ DispatchLoop
  \/ Handler_execute
  \/ \E p \in HostPaths, v \in StoreValues : Host_set(p, v)
  \/ \E v \in HostPartials : Host_patch(<<"resources">>, v)
  \/ \E layerId \in HostLayerIds : Host_execute(layerId)

\* the layer types the host registered before initialize
Registries == { <<"customLayer">>, <<"progressLayer">> }

EngineOptions ==
  /\ StoreInit
  /\ \E strict \in BOOLEAN : BusInit(strict, 3, 2)
  /\ \E registry \in Registries : EngineInit(registry)
  /\ RouterInit({})
  /\ lastOp = [op |-> "new", path |-> <<>>, ok |-> TRUE]

\* an engine, its host, and ticks that run one at a time
Spec == EngineOptions /\ [][Next]_vars

ReentrantNext ==
  \/ GameEngine_initialize
  \/ GameEngine_tick
  \/ TickStep
  \/ DispatchLoop
  \/ Handler_execute
  \/ Hook_tick
  \/ Hook_catch
  \/ Hook_rethrow

\* an engine whose hooks call tick() while a tick is running
ReentrantSpec == EngineOptions /\ [][ReentrantNext]_vars

(***************************************************************************)
(* An engine and the intents of its host.                                  *)
(***************************************************************************)
\* a node reference that is locked until resources.gold reaches 1
LockedRef == "layer:idle/sublayer:main/section:jobs"

\* a reset of a layer, a reset of no layer and a job on a node
EngineIntents ==
  { [type |-> "REQUEST_LAYER_RESET", targetRef |-> "", layerId |-> "idle"],
    [type |-> "REQUEST_LAYER_RESET", targetRef |-> "", layerId |-> ""],
    [type |-> "START_JOB", targetRef |-> LockedRef, layerId |-> ""] }

\* the host calls enqueueIntent between two ticks
Host_enqueueIntent(intent) ==
  /\ HostIdle
  /\ Len(intentQueue) < MaxPending
  /\ enqueueIntent(intent)

\* the onUnlockEvaluation hook of the host calls enqueueIntent while a tick
\* is running
Hook_enqueueIntent(intent) ==
  /\ tick.pc = "unlock-evaluation"
  /\ Len(intentQueue) < MaxPending
  /\ enqueueIntent(intent)

IntentNext ==
  \/ GameEngine_initialize
  \/ \E intent \in EngineIntents : Host_enqueueIntent(intent)
  \/ \E intent \in IntentInputs : Hook_enqueueIntent(intent)
  \/ GameEngine_tick
  \/ Tick_routeIntent
  \/ Tick_timePhase(Finite(16))
  \/ Tick_enterLayerUpdate
  \/ Tick_updateLayer("none")
  \/ Tick_enterDispatch
  \/ Tick_unlockEvaluation
  \/ Tick_render
  \/ Tick_return
  \/ DispatchLoop
  \/ Handler_execute

IntentOptions ==
  /\ StoreInit
  /\ \E strict \in BOOLEAN : BusInit(strict, 8, 2)
  /\ EngineInit(<<"customLayer">>)
  /\ RouterInit({})
  /\ lastOp = [op |-> "new", path |-> <<>>, ok |-> TRUE]

\* an engine whose host enqueues intents between and during ticks
IntentSpec == IntentOptions /\ [][IntentNext]_vars

(***************************************************************************)
(* IntentRouter.js on its own: register and route.                         *)
(***************************************************************************)
RouterTypes == {"START_JOB", "REQUEST_LAYER_RESET", "constructor"}

RouterIntents ==
  [type : RouterTypes \cup {"UNKNOWN"}, targetRef : {"", LockedRef, "layer:idle"},
   layerId : {"", "idle"}]

IntentRouter_register(intentType) ==
  /\ handlers' = IF intentType # "" THEN handlers \cup {intentType} ELSE handlers
  /\ lastOp' = [op |-> "register", path |-> <<intentType>>, ok |-> intentType # ""]
  /\ UNCHANGED <<storeVars, busConfig, busVars, busHistory, initialized, definition,
                 factoriesByType, layerInstances, runtimeSubscriptionTokens,
                 layerEventSubscriptionTokens, intentQueue, lastTickSummary, currentPhase,
                 phaseCursor, unlockedByRef, tickCalls, lockedNodes, handlerCalls, tickVars>>

\* route with a handler that returns; the call is recorded with its intent
IntentRouter_route(intent) ==
  /\ handlerCalls < MaxRouted
  /\ handlerCalls' = IF route(intent) = "INTENT_ROUTED" THEN handlerCalls + 1 ELSE handlerCalls
  /\ lastOp' = [op |-> "route",
                path |-> <<route(intent), intent.type, intent.targetRef, intent.layerId>>,
                ok |-> route(intent) # "throw"]
  /\ UNCHANGED <<storeVars, busConfig, busVars, busHistory, engineSetup, intentQueue,
                 lastTickSummary, currentPhase, phaseCursor, unlockedByRef, tickCalls, tickVars>>

RouterNext ==
  \/ \E intentType \in RouterTypes \cup {""} : IntentRouter_register(intentType)
  \/ \E intent \in RouterIntents : IntentRouter_route(intent)

RouterOptions ==
  /\ StoreInit
  /\ \E strict \in BOOLEAN : BusInit(strict, 1, 1)
  /\ EngineInit(<<>>)
  /\ \E locked \in {{}, {LockedRef}} : RouterInit(locked)
  /\ lastOp = [op |-> "new", path |-> <<>>, ok |-> TRUE]

\* a router and its caller
RouterSpec == RouterOptions /\ [][RouterNext]_vars

BusOptions ==
  /\ StoreInit
  /\ \E strict \in BOOLEAN, limits \in GuardrailOptions :
        BusInit(strict, limits.maxEventsPerTick, limits.maxDispatchCyclesPerTick)
  /\ EngineInit(<<>>)
  /\ RouterInit({})
  /\ lastOp = [op |-> "new", path |-> <<>>, ok |-> TRUE]

\* a bus, its caller, and handlers that publish or throw
BusSpec == BusOptions /\ [][BusNext]_vars

\* a bus, its caller, and handlers that subscribe and unsubscribe
SnapshotSpec == BusOptions /\ [][SnapshotNext]_vars

(***************************************************************************)
(* The unlock evaluator of an initialized engine, called from outside      *)
(* tick() with the phases a caller can pass, and the store it reads.       *)
(***************************************************************************)
\* the phase of the options: the required one, another phase name, the empty
\* string and none
EvaluatePhases == {"end-of-tick", "layer-update", "", Null}

UnlockWrites ==
  { [path |-> path, value |-> Num(n)] :
      path \in { <<"resources", "gold">>, <<"resources", "xp">> }, n \in 0..MaxNum }

\* unlockEvaluator.evaluateAll({phase}) called between ticks
Caller_evaluateAll(phase) ==
  /\ initialized
  /\ tick.pc = "idle"
  /\ disp.pc = "idle"
  /\ LET acc == evaluateAll(phase, allowedPhase)
     IN /\ unlockedByRef' = acc.unlockedByRef
        /\ queue' = acc.queue
        /\ nextSeq' = acc.nextSeq
        /\ lastOp' = [op |-> "evaluateAll", path |-> <<phase>>, ok |-> acc.ok]
  /\ UNCHANGED <<storeVars, busConfig, allowedPhase, subscribers, nextToken, lastDispatchReport,
                 disp, cycleNo, invocations, lastInv, cycleStartSubs, doneForEvent, deferred,
                 engineFixed, intentQueue, lastTickSummary, currentPhase, phaseCursor, tickVars>>

UnlockNext ==
  \/ GameEngine_initialize
  \/ \E write \in UnlockWrites : Caller_set(write.path, write.value)
  \/ \E phase \in EvaluatePhases : Caller_evaluateAll(phase)

UnlockOptions ==
  /\ StoreInit
  /\ \E strict \in BOOLEAN : BusInit(strict, 3, 2)
  /\ EngineInit(<<>>)
  /\ RouterInit({})
  /\ lastOp = [op |-> "new", path |-> <<>>, ok |-> TRUE]

\* an unlock evaluator, its caller and the store
UnlockSpec == UnlockOptions /\ [][UnlockNext]_vars

(***************************************************************************)
(* Callers of evaluateUnlockProgress.  The repository holds two copies of  *)
(* the module with a progress estimate; a build loads one of them.         *)
(***************************************************************************)
ProgressCopies == {"unlockCondition.js", "strict"}

ProgressPath == <<"resources", "gold">>

ProgressLeaves ==
  { Compare(ProgressPath, op, value) : op \in COMPARISON_OPS, value \in {-2, 0, 2} } \cup
  { ResourceGte(ProgressPath, value) : value \in {0, 2} } \cup
  { Flag(ProgressPath), AlwaysUnlocked }

ProgressAsts ==
  ProgressLeaves \cup
  { NotOf(leaf) : leaf \in ProgressLeaves } \cup
  { AllOf(<<leaf, NotOf(leaf), Compare(ProgressPath, "gt", 2)>>) : leaf \in ProgressLeaves } \cup
  { AnyOf(<<leaf, Compare(ProgressPath, "lt", -2)>>) : leaf \in ProgressLeaves }

\* resources.gold below, at and above the thresholds, a boolean, or missing
ProgressStates ==
  { Obj([k \in {"resources"} |-> Obj([r \in {"gold"} |-> value])]) :
      value \in { Num(n) : n \in -3..3 } \cup { Bool(TRUE) } } \cup { EmptyObj }

Caller_evaluateUnlockProgress(copy, ast) ==
  /\ lastOp = [op |-> "new", path |-> <<ast>>, ok |-> TRUE]
  /\ lastOp' = [op |-> "evaluateUnlockProgress", path |-> <<ast>>, ok |-> TRUE, copy |-> copy,
                value |-> IF copy = "strict"
                          THEN Strict_evaluateUnlockProgress(ast, canonicalState)
                          ELSE evaluateUnlockProgress(ast, canonicalState)]
  /\ UNCHANGED <<storeVars, busConfig, busVars, busHistory, engineVars, tickVars>>

ProgressNext ==
  \E copy \in ProgressCopies, ast \in ProgressAsts : Caller_evaluateUnlockProgress(copy, ast)

\* a caller with an unlock condition and a state
ProgressOptions ==
  /\ canonicalState \in ProgressStates
  /\ derivedState = EmptyObj
  /\ BusInit(FALSE, 1, 1)
  /\ EngineInit(<<>>)
  /\ RouterInit({})
  /\ \E ast \in ProgressAsts : lastOp = [op |-> "new", path |-> <<ast>>, ok |-> TRUE]

ProgressSpec == ProgressOptions /\ [][ProgressNext]_vars

(***************************************************************************)
(* Callers of parseNodeRef, formatNodeRef and normalizeNodeRef.            *)
(***************************************************************************)
\* ids of one and two characters and an id with a colon and a space inside
NodeIds == { <<"a">>, <<"a", "b">>, <<"a", ":", " ", "b">> }

\* the ids of a reference with one to four scopes
NodeIdLists == UNION { [1..n -> NodeIds] : n \in 1..Len(NODE_REF_ORDER) }

\* the canonical reference of a list of ids
CanonicalRef(ids) ==
  Concat([i \in 1..Len(ids) |->
    (IF i = 1 THEN <<>> ELSE <<"/">>) \o <<NODE_REF_ORDER[i], ":">> \o ids[i]])

\* where whitespace is added: before each segment, after each segment,
\* on both sides, or on both sides and around the colon
Paddings == {"before", "after", "around", "everywhere"}

WhitespaceVariant(ids, padding) ==
  Concat([i \in 1..Len(ids) |->
    (IF i = 1 THEN <<>> ELSE <<"/">>)
    \o (IF padding \in {"before", "around", "everywhere"} THEN <<" ">> ELSE <<>>)
    \o <<NODE_REF_ORDER[i]>>
    \o (IF padding = "everywhere" THEN <<" ", ":", " ", " ">> ELSE <<":">>)
    \o ids[i]
    \o (IF padding \in {"after", "around", "everywhere"} THEN <<" ", " ">> ELSE <<>>)])

\* the rejected references of the tests, an empty one and one without an id
InvalidRefs ==
  { <<"layer", ":", "a", "/", "zone", ":", "b">>,
    <<"layer", ":", "a", "/", "section", ":", "b">>,
    <<"layer", ":", "a", "/", "layer", ":", "b">>,
    <<"sublayer", ":", "a">>,
    <<" ">>,
    <<"layer", ":", " ">>,
    <<"layer", ":", "a", "/">> }

NodeRefInputs ==
  { CanonicalRef(ids) : ids \in NodeIdLists }
  \cup { WhitespaceVariant(ids, padding) : ids \in NodeIdLists, padding \in Paddings }
  \cup InvalidRefs

\* formatNodeRef(parseNodeRef(ref).value) when the reference parses
Caller_parseFormat(ref) ==
  /\ lastOp = [op |-> "new", path |-> ref, ok |-> TRUE]
  /\ lastOp' = [op |-> "parseNodeRef", path |-> ref, ok |-> parseNodeRef(ref).ok,
                value |-> IF parseNodeRef(ref).ok
                          THEN formatParsedNodeRef(parseNodeRef(ref).value)
                          ELSE <<parseNodeRef(ref).code>>]
  /\ UNCHANGED <<storeVars, busConfig, busVars, busHistory, engineVars, tickVars>>

Caller_normalizeNodeRef(ref) ==
  /\ lastOp = [op |-> "new", path |-> ref, ok |-> TRUE]
  /\ lastOp' = [op |-> "normalizeNodeRef", path |-> ref, ok |-> normalizeNodeRef(ref).ok,
                value |-> IF normalizeNodeRef(ref).ok THEN normalizeNodeRef(ref).value
                          ELSE <<normalizeNodeRef(ref).code>>]
  /\ UNCHANGED <<storeVars, busConfig, busVars, busHistory, engineVars, tickVars>>

NodeRefNext ==
  \/ \E ref \in NodeRefInputs : Caller_parseFormat(ref)
  \/ \E ref \in NodeRefInputs : Caller_normalizeNodeRef(ref)

\* a caller with a reference string
NodeRefOptions ==
  /\ StoreInit
  /\ BusInit(FALSE, 1, 1)
  /\ EngineInit(<<>>)
  /\ RouterInit({})
  /\ \E ref \in NodeRefInputs : lastOp = [op |-> "new", path |-> ref, ok |-> TRUE]

\* the node reference functions and their callers
NodeRefSpec == NodeRefOptions /\ [][NodeRefNext]_vars

(***************************************************************************)
(* A store, a caller that takes a snapshot and holds it, and the writes    *)
(* that follow.  lastOp records the snapshot() call with the snapshot as   *)
(* its holder sees it, and in path the operations made since.              *)
(***************************************************************************)
\* the operations followed after one snapshot() call
MaxLater == 3

Caller_snapshot ==
  /\ lastOp' = [op |-> "snapshot", path |-> <<>>, ok |-> TRUE, value |-> StateStore_snapshot]
  /\ UNCHANGED <<storeVars, busConfig, busVars, busHistory, engineVars, tickVars>>

Holding == lastOp.op = "snapshot" /\ Len(lastOp.path) < MaxLater

\* the held snapshot after a write in place into the store
heldAfterWrite(op) ==
  [op |-> "snapshot", path |-> Append(lastOp.path, op), ok |-> TRUE,
   value |-> [lastOp.value EXCEPT
                !.canonical = IF "canonical" \in lastOp.value.aliased
                              THEN canonicalState' ELSE @,
                !.derived = IF "derived" \in lastOp.value.aliased THEN derivedState' ELSE @]]

Holder_set(path, value) ==
  /\ Holding
  /\ StateStore_set(path, value)
  /\ lastOp' = heldAfterWrite("set")
  /\ UNCHANGED storeRest

Holder_patch(path, partial) ==
  /\ Holding
  /\ StateStore_patch(path, partial)
  /\ lastOp' = heldAfterWrite("patch")
  /\ UNCHANGED storeRest

Holder_setDerived(path, value) ==
  /\ Holding
  /\ canonicalState' = canonicalState
  /\ derivedState' = IF path = <<>> THEN derivedState ELSE writePath(derivedState, path, value)
  /\ lastOp' = heldAfterWrite("setDerived")
  /\ UNCHANGED storeRest

\* execute assigns a new object to canonicalState: the object the store held
\* before is not written
Holder_execute(layerId) ==
  /\ Holding
  /\ PublishBudgetLeft
  /\ LET r == executeResult(layerId)
     IN /\ canonicalState' = r.canonical
        /\ queue' = r.queue
        /\ nextSeq' = r.nextSeq
  /\ lastOp' = [lastOp EXCEPT !.path = Append(@, "execute"),
                              !.value.aliased = @ \ {"canonical"}]
  /\ UNCHANGED <<derivedState, busConfig, allowedPhase, subscribers, nextToken,
                 lastDispatchReport, disp, cycleNo, invocations, lastInv, cycleStartSubs,
                 doneForEvent, deferred, engineVars, tickVars>>

\* the holder assigns to a property of the snapshot: no effect on a frozen
\* object; on an object that is not frozen the write goes through, and
\* into the store when the store shares the object
Holder_modify(namespace, path, value) ==
  /\ Holding
  /\ LET held == lastOp.value
         written == IF held.frozen THEN held
                    ELSE [held EXCEPT ![namespace] = writePath(@, path, value)]
         reaches == ~held.frozen /\ namespace \in held.aliased
     IN /\ lastOp' = [lastOp EXCEPT !.path = Append(@, "modify"), !.value = written]
        /\ canonicalState' = IF reaches /\ namespace = "canonical"
                             THEN written.canonical ELSE canonicalState
        /\ derivedState' = IF reaches /\ namespace = "derived"
                           THEN written.derived ELSE derivedState
  /\ UNCHANGED storeRest

CopyWrites ==
  { [path |-> <<"resources", "xp">>, value |-> Num(MaxNum)],
    [path |-> <<"resources", "gold">>, value |-> Obj([k \in {"bars"} |-> Num(MaxNum)])] }

CopyNext ==
  \/ \E write \in CopyWrites : Caller_set(write.path, write.value)
  \/ StateStore_setDerived(<<"unlocks">>, Num(0))
  \/ Caller_snapshot
  \/ \E write \in CopyWrites : Holder_set(write.path, Num(0))
  \/ Holder_patch(<<"resources">>, Obj([k \in {"gems"} |-> Num(MaxNum)]))
  \/ Holder_setDerived(<<"unlocks">>, Num(MaxNum))
  \/ Holder_execute("idle")
  \/ \E namespace \in {"canonical", "derived"} :
        Holder_modify(namespace, <<"resources", "xp">>, Num(MaxNum + 1))

CopyOptions ==
  /\ StoreInit
  /\ BusInit(FALSE, 3, 2)
  /\ EngineInit(<<>>)
  /\ RouterInit({})
  /\ lastOp = [op |-> "new", path |-> <<>>, ok |-> TRUE]

\* a store, the caller that holds a snapshot, and the reset service
CopySpec == CopyOptions /\ [][CopyNext]_vars

(***************************************************************************)
(* Unlock conditions evaluated on a canonical state whose paths are        *)
(* missing or hold values of another type, and the ticks of an engine on   *)
(* such a state.                                                           *)
(***************************************************************************)
\* a path the definition declares and a path no state has
ConditionPaths == { <<"resources", "gold">>, <<"resources", "missing">> }

ConditionLeaves ==
  { ResourceGte(path, MaxNum) : path \in ConditionPaths } \cup
  { Compare(path, op, MaxNum) : path \in ConditionPaths, op \in COMPARISON_OPS } \cup
  { Flag(path) : path \in ConditionPaths }

\* the leaves combined with the gold threshold
ConditionAsts ==
  ConditionLeaves \cup
  { NotOf(leaf) : leaf \in ConditionLeaves } \cup
  { AllOf(<<ResourceGte(<<"resources", "gold">>, MaxNum), leaf>>) : leaf \in ConditionLeaves } \cup
  { AnyOf(<<leaf, Flag(<<"resources", "gold">>)>>) : leaf \in ConditionLeaves }

\* numbers, a boolean and an object under resources.gold; a number in the
\* place of resources
ConditionWrites ==
  { [path |-> <<"resources", "gold">>, value |-> value] :
      value \in {Num(0), Num(MaxNum), Num(MaxNum + 1), Bool(TRUE), EmptyObj} } \cup
  { [path |-> <<"resources">>, value |-> Num(MaxNum)] }

\* evaluateUnlockCondition(ast, state) on the canonical state; the call is
\* recorded with its result
Caller_evaluateUnlockCondition(ast) ==
  /\ HostIdle
  /\ lastOp' = [op |-> "evaluateUnlockCondition", path |-> <<ast>>, ok |-> TRUE,
                value |-> evaluateUnlockCondition(ast, canonicalState)]
  /\ UNCHANGED <<storeVars, busConfig, busVars, busHistory, engineVars, tickVars>>

ConditionNext ==
  \/ GameEngine_initialize
  \/ \E write \in ConditionWrites : Host_set(write.path, write.value)
  \/ \E ast \in ConditionAsts : Caller_evaluateUnlockCondition(ast)
  \/ GameEngine_tick
  \/ Tick_timePhase(Finite(16))
  \/ Tick_enterLayerUpdate
  \/ Tick_updateLayer("none")
  \/ Tick_enterDispatch
  \/ Tick_unlockEvaluation
  \/ Tick_render
  \/ Tick_return
  \/ DispatchLoop

\* an engine, a host that writes any value, and the unlock conditions
ConditionSpec == EngineOptions /\ [][ConditionNext]_vars

(***************************************************************************)
(* An engine whose host calls initialize and destroy any number of times,  *)
(* and the bus of the engine with a caller of its own.                     *)
(***************************************************************************)
RawDefinitions == {"valid", "invalid"}

Host_initialize(rawDefinition) ==
  /\ tick.pc = "idle"
  /\ disp.pc = "idle"
  /\ initialize(rawDefinition)

\* the host calls enqueueIntent right after an initialize call
Host_enqueueAfterInitialize(intent) ==
  /\ lastOp.op = "initialize"
  /\ GameEngine_enqueueIntent(intent)

\* the host publishes on the bus of an engine that is not initialized, one
\* event at a time
Host_publishAfterDestroy(event) ==
  /\ ~initialized
  /\ queue = <<>>
  /\ Caller_publish(event)

LifecyclePublishInputs ==
  { [type |-> "LAYER_RESET_EXECUTED", payload |-> "idle", phase |-> Null],
    [type |-> "LAYER_RESET_REQUESTED", payload |-> "idle", phase |-> Null] }

LifecycleNext ==
  \/ \E rawDefinition \in RawDefinitions : Host_initialize(rawDefinition)
  \/ GameEngine_destroy
  \/ \E intent \in IntentInputs : Host_enqueueAfterInitialize(intent)
  \/ GameEngine_tick
  \/ Tick_routeIntent
  \/ Tick_timePhase(Finite(16))
  \/ Tick_enterLayerUpdate
  \/ Tick_updateLayer("none")
  \/ Tick_enterDispatch
  \/ Tick_unlockEvaluation
  \/ Tick_render
  \/ Tick_return
  \/ \E event \in LifecyclePublishInputs : Host_publishAfterDestroy(event)
  \/ ~initialized /\ EventBus_dispatchQueued
  \/ DispatchLoop
  \/ Handler_execute

\* new GameEngine({layerRegistry}): strict validation is the default
LifecycleOptions ==
  /\ StoreInit
  /\ BusInit(TRUE, 3, 2)
  /\ \E registry \in Registries : EngineInit(registry)
  /\ RouterInit({})
  /\ lastOp = [op |-> "new", path |-> <<>>, ok |-> TRUE]

\* an engine, the host that sets it up and tears it down, and its bus
LifecycleSpec == LifecycleOptions /\ [][LifecycleNext]_vars

(***************************************************************************)
(* A bus with strict validation whose owner sets allowedPhase, as          *)
(* #enterPhase and #exitPhaseLoop do.                                      *)
(***************************************************************************)
\* events with and without a catalog entry, a valid and an invalid payload,
\* and with and without a phase of their own
StrictPublishInputs ==
  [type : {"UNLOCKED", "LAYER_RESET_EXECUTED", "PING"}, payload : {"idle", ""},
   phase : {Null, "event-dispatch"}]

AllowedPhases == {Null, "input", "event-dispatch", "unlock-evaluation"}

Owner_setAllowedPhase(phase) ==
  /\ disp.pc = "idle"
  /\ allowedPhase' = phase
  /\ lastOp' = [op |-> "allowedPhase", path |-> <<phase>>, ok |-> TRUE]
  /\ UNCHANGED <<storeVars, busConfig, queue, subscribers, nextToken, lastDispatchReport, disp,
                 busHistory, engineVars, tickVars>>

StrictNext ==
  \/ \E event \in StrictPublishInputs : Caller_publish(event)
  \/ \E phase \in AllowedPhases : Owner_setAllowedPhase(phase)
  \/ Caller_subscribe("UNLOCKED", "noop")

StrictOptions ==
  /\ StoreInit
  /\ BusInit(TRUE, 3, 2)
  /\ EngineInit(<<>>)
  /\ RouterInit({})
  /\ lastOp = [op |-> "new", path |-> <<>>, ok |-> TRUE]

\* a bus with strict validation, its caller and its owner
StrictSpec == StrictOptions /\ [][StrictNext]_vars

(***************************************************************************)
(* A reset service on a store and a bus, called by the code that built     *)
(* them; the owner of the bus sets allowedPhase.                           *)
(***************************************************************************)
ResetPaths ==
  { <<"resources">>, <<"resources", "xp">>, <<"resources", "gold">>, <<"layers", "idle", "level">> }

\* the writes of the caller: numbers, a plain object at the keep path of
\* idle, and a number in the place of the object that holds it
ResetWrites ==
  { [path |-> path, value |-> Num(MaxNum)] : path \in ResetPaths } \cup
  { [path |-> <<"resources", "gold">>, value |-> Obj([k \in {"bars"} |-> Num(MaxNum)])] }

ResetLayerIds == {"idle", "bonus", "ghost"}

ResetPhases == {Null, "input"}

Caller_execute(layerId) ==
  /\ disp.pc = "idle"
  /\ PublishBudgetLeft
  /\ LET r == executeResult(layerId)
     IN /\ canonicalState' = r.canonical
        /\ queue' = r.queue
        /\ nextSeq' = r.nextSeq
        /\ lastOp' = [op |-> "execute", path |-> <<layerId>>, ok |-> r.ok]
  /\ UNCHANGED <<derivedState, busConfig, allowedPhase, subscribers, nextToken,
                 lastDispatchReport, disp, cycleNo, invocations, lastInv, cycleStartSubs,
                 doneForEvent, deferred, engineVars, tickVars>>

ResetNext ==
  \/ \E write \in ResetWrites : Caller_set(write.path, write.value)
  \/ \E layerId \in ResetLayerIds : Caller_execute(layerId)
  \/ \E phase \in ResetPhases : Owner_setAllowedPhase(phase)

ResetOptions ==
  /\ StoreInit
  /\ \E strict \in BOOLEAN : BusInit(strict, 3, 2)
  /\ EngineInit(<<>>)
  /\ RouterInit({})
  /\ lastOp = [op |-> "new", path |-> <<>>, ok |-> TRUE]

\* a reset service, the store it resets and the bus it publishes on
ResetSpec == ResetOptions /\ [][ResetNext]_vars

StoreOptions ==
  /\ StoreInit
  /\ BusInit(FALSE, 1, 1)
  /\ EngineInit(<<>>)
  /\ RouterInit({})
  /\ lastOp = [op |-> "new", path |-> <<>>, ok |-> TRUE]

\* a store and its callers
StoreSpec == StoreOptions /\ [][StoreNext]_vars

(***************************************************************************)
(* The layer contexts of a definition whose layer ids are unique           *)
(* non-empty strings, one of them with a dot, and the store they write.    *)
(***************************************************************************)
ContextLayerIds == {"idle", "idle.core", "bonus"}

ContextSuffixes == { <<>>, <<"level">>, <<"core">>, <<"layers", "bonus">> }

ContextNext ==
  \/ \E layerId \in ContextLayerIds, s \in ContextSuffixes :
       LayerContext_setOwn(layerId, s, Num(MaxNum))
  \/ \E layerId \in ContextLayerIds, s \in ContextSuffixes, v \in OwnPartials :
       LayerContext_patchOwn(layerId, s, v)
  \/ Caller_set(<<"resources", "xp">>, Num(MaxNum))

\* layer contexts and the store
ContextSpec == StoreOptions /\ [][ContextNext]_vars

(***************************************************************************)
(* Properties of the state store (StoreSpec).                              *)
(***************************************************************************)
UnderDerived(path) == Len(path) >= 1 /\ path[1] = "derived"

\* C7: set and patch on the path 'derived' or a path under 'derived.' raise
\* and leave canonical and derived state unchanged; derived state changes
\* only through setDerived, and setDerived never changes canonical state.
C7_DerivedOnlyThroughSetDerived ==
  [][ /\ (lastOp'.op \in {"set", "patch"} /\ UnderDerived(lastOp'.path))
           => (~lastOp'.ok /\ canonicalState' = canonicalState /\ derivedState' = derivedState)
      /\ (derivedState' # derivedState) => lastOp'.op = "setDerived"
      /\ (lastOp'.op = "setDerived") => canonicalState' = canonicalState ]_vars

C7_Witness ==
  /\ lastOp = [op |-> "set", path |-> <<"derived", "unlocks">>, ok |-> FALSE]
  /\ derivedState # EmptyObj
  /\ canonicalState # DefinitionState

\* C8: setOwn and patchOwn with a suffix that begins with 'layers.' raise
\* before any store write: the canonical state is unchanged.
C8_LayerWriteStaysInNamespace ==
  [][ (lastOp'.op \in {"setOwn", "patchOwn"} /\ Len(lastOp'.path) >= 2 /\ lastOp'.path[1] = "layers")
        => (~lastOp'.ok /\ canonicalState' = canonicalState /\ derivedState' = derivedState) ]_vars

C8_Witness ==
  /\ lastOp = [op |-> "patchOwn", path |-> <<"layers", "bonus">>, ok |-> FALSE]
  /\ readPath(canonicalState, <<"layers", "idle", "level">>) = Num(MaxNum)
  /\ readPath(canonicalState, <<"layers", "bonus">>) = Undef

(***************************************************************************)
(* Properties of the event bus (BusSpec).                                  *)
(***************************************************************************)
\* C3: publish never invokes a subscriber, inside or outside a dispatch:
\* the invocation count, the subscriptions and the dispatch report are
\* unchanged and the only change is the event appended at the tail of the
\* queue; handlers run only inside dispatchQueued().
C3_PublishOnlyAppends ==
  [][ /\ (lastOp'.op = "publish") =>
            /\ invocations' = invocations
            /\ subscribers' = subscribers
            /\ nextToken' = nextToken
            /\ lastDispatchReport' = lastDispatchReport
            /\ allowedPhase' = allowedPhase
            /\ canonicalState' = canonicalState /\ derivedState' = derivedState
            /\ IF lastOp'.ok
               THEN /\ Len(queue') = Len(queue) + 1
                    /\ SubSeq(queue', 1, Len(queue)) = queue
                    /\ queue'[Len(queue')].type = lastOp'.path[1]
               ELSE queue' = queue
      /\ (invocations' # invocations) => (disp.pc = "handlers" /\ invocations' = invocations + 1) ]_vars

C3_Witness ==
  /\ lastOp.op = "publish" /\ lastOp.ok
  /\ disp.pc = "handler"
  /\ subscribers[lastOp.path[1]] # <<>>
  /\ Len(queue) >= 2

LexLess(a, b) == a.seq < b.seq \/ (a.seq = b.seq /\ a.token < b.token)

\* the events not yet handled, the oldest first
Pending ==
  IF disp.pc \in {"event", "handlers", "handler"}
  THEN SubSeq(disp.dispatchQueue, disp.idx, Len(disp.dispatchQueue)) \o queue
  ELSE queue

Increasing(s) == \A i \in 1..Len(s) : \A j \in 1..Len(s) : i < j => s[i] < s[j]

\* C4: events are handled in publish order within a cycle, across cycles and
\* across dispatchQueued() calls; an event published by a handler is handled
\* in a later cycle than the one it was published in; for one event the
\* handlers run in subscription order.
C4_FifoDelivery ==
  [][ /\ (lastInv' # lastInv) => LexLess(lastInv, lastInv')
      /\ Increasing(Seqs(Pending'))
      /\ (disp'.pc = "handler") =>
            /\ CurrentEvent'.seq = lastInv'.seq
            /\ Pending'[1].seq = lastInv'.seq
            /\ CurrentEvent'.cyc < cycleNo' ]_vars

C4_Witness ==
  /\ disp.pc = "handler"
  /\ CurrentEvent.seq = 3 /\ CurrentEvent.cyc = 1
  /\ cycleNo = 2 /\ disp.cyclesProcessed = 1
  /\ invocations >= 3

\* C5: the handlers invoked for an event are exactly the subscribers that
\* were registered for its type when the cycle started; a subscription made
\* during a cycle is not invoked in that cycle, and one removed during a
\* cycle is still invoked for the rest of that cycle.
C5_CycleSnapshot ==
  [][ /\ (disp'.pc \in {"handlers", "handler"}) =>
            IsPrefix(doneForEvent', Tokens(cycleStartSubs'[CurrentEvent'.type]))
      /\ (disp'.pc = "handler") =>
            /\ CurrentSubscriber'.born < cycleNo'
            /\ doneForEvent'[Len(doneForEvent')] = CurrentSubscriber'.token
      /\ (lastOp'.op = "dispatchQueued" /\ lastOp'.path = <<"event-end">>) =>
            doneForEvent = Tokens(cycleStartSubs[CurrentEvent.type]) ]_vars

C5_Witness ==
  /\ disp.pc = "handler"
  /\ ~HasToken(CurrentSubscriber.token)
  /\ Len(doneForEvent) = 2

\* C9: in one dispatchQueued() handlers are invoked for at most
\* maxEventsPerTick events; one more event raises the error that names
\* maxEventsPerTick before any handler runs for it, so a dispatch that leaves
\* events queued without an error has used all its cycles.
C9_EventLimit ==
  [][ /\ (disp'.pc \in {"handlers", "handler"}) => disp'.processedEvents <= maxEventsPerTick
      /\ (lastOp'.op = "handler") => disp.processedEvents <= maxEventsPerTick
      /\ (lastOp' = [op |-> "dispatchQueued", path |-> <<"maxEventsPerTick">>, ok |-> FALSE]) =>
            /\ disp.pc = "event" /\ disp.processedEvents = maxEventsPerTick
            /\ invocations' = invocations
            /\ disp'.pc = "idle"
            /\ lastDispatchReport' = lastDispatchReport
      /\ (lastOp'.op = "dispatchQueued" /\ lastOp'.path = <<"return">> /\ Len(queue) > 0) =>
            disp.cyclesProcessed = maxDispatchCyclesPerTick ]_vars

C9_Witness ==
  /\ lastOp = [op |-> "dispatchQueued", path |-> <<"maxEventsPerTick">>, ok |-> FALSE]
  /\ \E i \in 1..Len(subscribers["LAYER_RESET_REQUESTED"]) :
        subscribers["LAYER_RESET_REQUESTED"][i].handler = "republish"
  /\ nextToken = 2
  /\ cycleNo = 2 /\ invocations = 1

\* C10: one dispatchQueued() runs at most maxDispatchCyclesPerTick cycles;
\* events still queued then are neither dropped nor an error: they stay at
\* the head of the queue in publish order, the report counts them with
\* deferredDueToCycleLimit set, and the next dispatchQueued() handles them
\* first.
C10_CycleLimitDefers ==
  [][ /\ disp'.cyclesProcessed <= maxDispatchCyclesPerTick
      /\ (lastOp'.op = "dispatchQueued" /\ lastOp'.path = <<"return">>) =>
            /\ lastOp'.ok
            /\ queue' = queue
            /\ lastDispatchReport'.cyclesProcessed = disp.cyclesProcessed
            /\ lastDispatchReport'.deferredEvents = Len(queue)
            /\ lastDispatchReport'.deferredDueToCycleLimit = (Len(queue) > 0)
            /\ deferred' = Seqs(queue)
      /\ (disp'.pc = "idle") => (IsPrefix(deferred', Seqs(queue')) /\ Increasing(Seqs(queue')))
      /\ (lastOp'.op = "dispatchQueued" /\ lastOp'.path = <<"cycle">> /\ disp.cyclesProcessed = 0) =>
            IsPrefix(deferred, Seqs(disp'.dispatchQueue)) ]_vars

C10_Witness ==
  /\ disp.pc = "handler" /\ disp.cyclesProcessed = 1 /\ disp.idx = 1
  /\ lastDispatchReport.deferredEvents = 1 /\ lastDispatchReport.deferredDueToCycleLimit
  /\ lastDispatchReport.cyclesProcessed = maxDispatchCyclesPerTick
  /\ CurrentEvent.cyc >= 1
  /\ Len(disp.dispatchQueue) = 2

(***************************************************************************)
(* Properties of the engine (Spec, ReentrantSpec).                         *)
(***************************************************************************)
TickReturned == [op |-> "tick", path |-> <<"return">>, ok |-> TRUE]

\* the summary reports ref unlocked
ReportsUnlocked(summary, ref) ==
  summary.unlocks.unlocked[ref] /\ InSeq(ref, summary.unlocks.unlockedRefs)

\* C1: once a tick summary reports a reference unlocked, every later tick
\* summary reports it unlocked, in unlocks.unlocked and in unlockedRefs,
\* whatever the host writes or resets between the ticks; the evaluator never
\* takes an unlocked reference back.
C1_UnlockMonotone ==
  [][ /\ \A ref \in DOMAIN unlockedByRef : unlockedByRef[ref] => unlockedByRef'[ref]
      /\ (lastTickSummary' # lastTickSummary) =>
            /\ lastOp' = TickReturned
            /\ DOMAIN lastTickSummary'.unlocks.unlocked = TargetRefs
            /\ \A ref \in DOMAIN lastTickSummary'.unlocks.unlocked :
                  /\ lastTickSummary'.unlocks.unlocked[ref]
                       <=> InSeq(ref, lastTickSummary'.unlocks.unlockedRefs)
                  /\ (lastTickSummary # NullRec /\ ReportsUnlocked(lastTickSummary, ref))
                       => ReportsUnlocked(lastTickSummary', ref) ]_vars

C1_Witness ==
  /\ lastOp = TickReturned
  /\ tickCalls >= 2
  /\ \E i \in 1..Len(Targets) :
        /\ ReportsUnlocked(lastTickSummary, Targets[i].ref)
        /\ ~InSeq(Targets[i].ref, lastTickSummary.unlocks.transitions)
        /\ ~evaluateUnlockCondition(Targets[i].ast, canonicalState)

\* C2: a tick() that returns normally has entered input, time, layer-update,
\* event-dispatch, unlock-evaluation and render in that order, each once;
\* entering a phase that is not the next one of the sequence raises the
\* phase-order error, ends the call and changes nothing else, and entering the
\* next one moves the cursor by one.
C2_PhaseOrder ==
  [][ /\ (lastOp' = TickReturned) => tick.entered = ENGINE_PHASE_SEQUENCE
      /\ (tick'.pc # "idle") => IsPrefix(tick'.entered, ENGINE_PHASE_SEQUENCE)
      /\ (lastOp'.op = "enterPhase" /\ lastOp'.path[1] = "input") =>
            (lastOp'.ok /\ phaseCursor' = 0 /\ tick'.entered = <<"input">>)
      /\ (lastOp'.op = "enterPhase" /\ lastOp'.path[1] # "input") =>
            IF phaseCursor + 2 \in DOMAIN ENGINE_PHASE_SEQUENCE
               /\ ENGINE_PHASE_SEQUENCE[phaseCursor + 2] = lastOp'.path[1]
            THEN /\ lastOp'.path # <<lastOp'.path[1], "phase-order">>
                 /\ phaseCursor' = phaseCursor + 1
                 /\ currentPhase' = lastOp'.path[1]
                 /\ allowedPhase' = lastOp'.path[1]
            ELSE /\ lastOp' = [op |-> "enterPhase", path |-> <<lastOp'.path[1], "phase-order">>,
                               ok |-> FALSE]
                 /\ Len(outerTicks') < Len(outerTicks) \/ tick'.pc = "idle"
                 /\ UNCHANGED <<storeVars, busConfig, busVars, busHistory, engineVars>> ]_vars

C2_Witness ==
  /\ lastOp = [op |-> "enterPhase", path |-> <<"event-dispatch", "phase-order">>, ok |-> FALSE]
  /\ tick.pc = "idle"
  /\ phaseCursor = Len(ENGINE_PHASE_SEQUENCE) - 1
  /\ lastTickSummary # NullRec
  /\ lastTickSummary.updatedLayers = LayerIds

\* C6: a tick calls update once per layer in the order of definition.layers
\* and its summary lists the layer ids in that order, whatever was registered
\* before the built-in layer type.
C6_LayerUpdateOrder ==
  [][ /\ (tick'.pc # "idle") =>
            /\ IsPrefix(tick'.updateCalls, LayerIds)
            /\ tick'.summary.updatedLayers = tick'.updateCalls
      /\ (lastOp'.op = "layer.update" /\ lastOp'.ok) =>
            /\ lastOp'.path = <<definition.layers[tick.layerIdx].id>>
            /\ tick'.updateCalls = Append(tick.updateCalls, LayerIds[tick.layerIdx])
      /\ (lastOp' = TickReturned) =>
            /\ tick.updateCalls = LayerIds
            /\ lastTickSummary'.updatedLayers = LayerIds ]_vars

C6_Witness ==
  /\ lastOp = TickReturned
  /\ factoriesByType = <<"customLayer", "progressLayer">>
  /\ lastTickSummary.updatedLayers = <<"idle", "bonus">>
  /\ [i \in 1..Len(layerInstances) |-> layerInstances[i].id] = <<"idle", "bonus">>

(***************************************************************************)
(* Properties of a tick: same-tick delivery.                               *)
(***************************************************************************)
DispatchReturned == [op |-> "dispatchQueued", path |-> <<"return">>, ok |-> TRUE]

\* the dispatchQueued() call that is about to return stopped at the cycle limit
CycleLimitHit == disp.cyclesProcessed >= maxDispatchCyclesPerTick /\ queue # <<>>

\* C11: when the dispatchQueued() call of a tick returns and the cycle limit
\* was not hit (the event limit ends the tick instead of returning), every
\* event that was queued when the tick started or was published since,
\* by the input, time and layer-update phases or by handlers, was processed
\* by this call: the queue is empty, and the report, which the summary of the
\* tick holds, says deferredEvents = 0 and deferredDueToCycleLimit = FALSE.
C11_SameTickDelivery ==
  [][ (lastOp' = DispatchReturned /\ tick.pc = "event-dispatch" /\ ~CycleLimitHit) =>
        /\ queue' = <<>>
        /\ lastDispatchReport'.deferredEvents = 0
        /\ ~lastDispatchReport'.deferredDueToCycleLimit
        /\ lastDispatchReport'.eventsProcessed = tick.startQueued + (nextSeq - tick.startSeq)
        /\ tick'.summary.dispatch = lastDispatchReport' ]_vars

\* a tick whose dispatch took two cycles, the second for an event a handler
\* published in the first, and left nothing behind
C11_Witness ==
  /\ lastOp = DispatchReturned
  /\ tick.pc = "dispatched"
  /\ tick.summary.dispatch.cyclesProcessed = 2
  /\ tick.summary.dispatch.eventsProcessed >= 2
  /\ tick.summary.dispatch.deliveredHandlers >= 2
  /\ tick.summary.dispatch.deferredEvents = 0
  /\ nextSeq - tick.startSeq >= 2
  /\ queue = <<>>

\* an UNLOCKED event that the unlock evaluation of a tick published
FromUnlockEvaluation(event) == event.type = "UNLOCKED" /\ event.phase = "unlock-evaluation"

\* such an event leaves the queue only into a dispatch cycle of the
\* event-dispatch phase of a tick that started after it was published
UnlockedStaysQueued ==
  \A i \in 1..Len(queue) :
    FromUnlockEvaluation(queue[i]) =>
      \/ InSeq(queue[i], queue')
      \/ /\ tick.pc = "event-dispatch"
         /\ queue[i].seq < tick.startSeq
         /\ InSeq(queue[i], disp'.dispatchQueue)

\* such an event stays in its dispatch cycle until the handlers were invoked for it
UnlockedIsDelivered ==
  \A i \in 1..Len(disp.dispatchQueue) :
    (FromUnlockEvaluation(disp.dispatchQueue[i]) /\ disp'.dispatchQueue # disp.dispatchQueue)
      => i < disp.idx

\* C12: an UNLOCKED event published during the unlock-evaluation phase of a
\* tick is not delivered in that tick; it stays queued until the event-dispatch
\* phase of the next tick, whose first dispatch cycle takes it, and there it is
\* delivered to the UNLOCKED subscribers.
C12_UnlockedDeliveredNextTick ==
  [][ UnlockedStaysQueued /\ UnlockedIsDelivered ]_vars

(***************************************************************************)
(* Properties of the unlock evaluator.                                     *)
(***************************************************************************)
UnlockEvaluated == [op |-> "enterPhase", path |-> <<"unlock-evaluation">>, ok |-> TRUE]

\* the node references of the definition: each layer, then its sublayers,
\* sections and elements depth-first in array order
EnumerationOrder ==
  <<"layer:idle", "layer:idle/sublayer:main", "layer:idle/sublayer:main/section:jobs",
    "layer:idle/sublayer:main/section:jobs/element:xp-gated", "layer:bonus">>

\* the references that are locked in before and unlocked in after
NewlyUnlocked(before, after) ==
  SelectSeq(EnumerationOrder, LAMBDA ref : ~before[ref] /\ after[ref])

\* C13: a call of evaluateAll appends to the queue exactly one UNLOCKED event
\* for each reference that the call changes from locked to unlocked, in
\* enumeration order, and these references are the transitions of its
\* summary; nothing else publishes UNLOCKED events, and no reference is ever
\* locked again, so each reference gets at most one UNLOCKED event.
C13_OneUnlockedPerTransition ==
  [][ /\ \A ref \in DOMAIN unlockedByRef : unlockedByRef[ref] => unlockedByRef'[ref]
      /\ (lastOp' = UnlockEvaluated) =>
            LET changed == NewlyUnlocked(unlockedByRef, unlockedByRef')
                published == SubSeq(queue', Len(queue) + 1, Len(queue'))
            IN /\ IsPrefix(queue, queue')
               /\ tick'.summary.unlocks.transitions = changed
               /\ Len(published) = Len(changed)
               /\ \A i \in 1..Len(published) :
                     published[i].type = "UNLOCKED" /\ published[i].payload = changed[i]
      /\ (lastOp' # UnlockEvaluated) =>
            \A i \in 1..Len(queue') : queue'[i].type = "UNLOCKED" => InSeq(queue'[i], queue)
    ]_vars

\* the evaluation of a second tick: two references of different layers are
\* unlocked by it, two were unlocked before and one is still locked
C13_Witness ==
  /\ lastOp = UnlockEvaluated
  /\ tickCalls = 2
  /\ tick.summary.unlocks.transitions =
       <<"layer:idle/sublayer:main/section:jobs", "layer:bonus">>
  /\ Len(queue) >= 2
  /\ queue[Len(queue) - 1].payload = "layer:idle/sublayer:main/section:jobs"
  /\ queue[Len(queue)].payload = "layer:bonus"
  /\ unlockedByRef["layer:idle"]
  /\ ~unlockedByRef["layer:idle/sublayer:main/section:jobs/element:xp-gated"]

(***************************************************************************)
(* Properties of the intent router (RouterSpec).                           *)
(***************************************************************************)
\* the outcome of route for a well-formed intent, by the order of the checks:
\* catalog entry, payload (strict validation only), locked target, handler
RouteOutcome(intentType, targetRef, layerId) ==
  IF intentType \notin DOMAIN INTENT_CATALOG THEN "INTENT_CATALOG_MISSING"
  ELSE IF /\ strictValidation
          /\ (IF INTENT_CATALOG[intentType].required = "targetRef" THEN targetRef ELSE layerId) = ""
  THEN "INTENT_PAYLOAD_INVALID"
  ELSE IF /\ INTENT_CATALOG[intentType].lockCheckPolicy = "reject-if-target-locked"
          /\ targetRef \in lockedNodes
  THEN "INTENT_TARGET_LOCKED"
  ELSE IF intentType \notin handlers THEN "INTENT_HANDLER_MISSING"
  ELSE "INTENT_ROUTED"

\* C14: route returns exactly one outcome, chosen in the fixed order
\* INTENT_CATALOG_MISSING, INTENT_PAYLOAD_INVALID (strict validation only),
\* INTENT_TARGET_LOCKED, INTENT_HANDLER_MISSING, INTENT_ROUTED; the handler is
\* invoked exactly once for INTENT_ROUTED and never for the four rejections.
C14_RouteOutcomeOrder ==
  [][ (lastOp'.op = "route") =>
        /\ lastOp'.path[1] = RouteOutcome(lastOp'.path[2], lastOp'.path[3], lastOp'.path[4])
        /\ handlerCalls' = IF lastOp'.path[1] = "INTENT_ROUTED" THEN handlerCalls + 1
                           ELSE handlerCalls ]_vars

(***************************************************************************)
(* Properties of the intents of an engine (IntentSpec).                    *)
(***************************************************************************)
\* the unlock summary in derived state, when an unlock evaluation has stored one
HasUnlockSummary == "unlocks" \in DOMAIN derivedState.f

\* the summary says that the node is locked
SummaryLocks(targetRef) ==
  /\ HasUnlockSummary
  /\ targetRef \in DOMAIN derivedState.f["unlocks"].v.unlocked
  /\ ~derivedState.f["unlocks"].v.unlocked[targetRef]

\* C15: the router of a running engine answers an intent whose targetRef is a
\* node that the unlock summary in derived state reports as locked with
\* INTENT_TARGET_LOCKED, without running a handler, and it rejects no intent as
\* locked whose target the summary reports as unlocked or while there is
\* no summary.
C15_LockFollowsUnlockSummary ==
  [][ (lastOp'.op = "route" /\ tick.pc = "input" /\ tick.pending # <<>>) =>
        LET intent == nextIntent(tick.pending)
        IN IF intent.targetRef # "" /\ SummaryLocks(intent.targetRef)
           THEN lastOp'.path[1] = "INTENT_TARGET_LOCKED" /\ handlerCalls' = handlerCalls
           ELSE lastOp'.path[1] # "INTENT_TARGET_LOCKED" ]_vars

RejectionCodes ==
  {"INTENT_CATALOG_MISSING", "INTENT_PAYLOAD_INVALID", "INTENT_TARGET_LOCKED",
   "INTENT_HANDLER_MISSING"}

\* the results collected so far are those of the first intents the input phase
\* took, in enqueue order, and the intents after them are still pending
RoutedInOrder(t) ==
  /\ Len(t.summary.intentsRouted) + Len(t.pending) = Len(t.queued)
  /\ t.pending = SubSeq(t.queued, Len(t.summary.intentsRouted) + 1, Len(t.queued))
  /\ \A i \in 1..Len(t.summary.intentsRouted) :
        t.summary.intentsRouted[i] =
          RouteOutcome(t.queued[i].type, t.queued[i].targetRef, t.queued[i].layerId)

C17_EveryIntentRoutedOnce ==
  [][ /\ (lastOp'.op = "enqueueIntent" /\ lastOp'.ok) =>
            /\ Len(intentQueue') = Len(intentQueue) + 1
            /\ IsPrefix(intentQueue, intentQueue')
            /\ tick' = tick
      /\ (lastOp'.op # "enqueueIntent" /\ intentQueue' # intentQueue) =>
            /\ tick.pc = "idle" /\ tick'.pc = "input"
            /\ intentQueue' = <<>>
            /\ tick'.pending = intentQueue
      /\ (tick.pc # "idle" /\ tick'.pending # tick.pending) =>
            /\ lastOp'.op = "route"
            /\ tick.pending # <<>>
            /\ tick'.pending = Tail(tick.pending) ]_vars

(***************************************************************************)
(* Properties of a bus with strict validation (StrictSpec).                *)
(***************************************************************************)
\* C18: on a bus with strict validation a publish of an event whose type has
\* no catalog entry raises, and a publish that raises leaves the queue and
\* the subscribers as they were; every event in the queue has a catalog entry
\* and a payload that the validator of the entry accepts.
C18_StrictPublishValidates ==
  [][ /\ (strictValidation /\ lastOp'.op = "publish") =>
            /\ (lastOp'.path[1] \notin DOMAIN EVENT_CATALOG) => ~lastOp'.ok
            /\ ~lastOp'.ok => (queue' = queue /\ subscribers' = subscribers)
            /\ lastOp'.ok => (Len(queue') = Len(queue) + 1 /\ IsPrefix(queue, queue'))
      /\ strictValidation' =>
            \A i \in 1..Len(queue') :
               /\ queue'[i].type \in DOMAIN EVENT_CATALOG
               /\ queue'[i].payload # "" ]_vars

\* a rejected publish of an event without a catalog entry on a bus that holds
\* an accepted event and a subscriber
C18_Witness ==
  /\ strictValidation
  /\ lastOp.op = "publish" /\ ~lastOp.ok
  /\ lastOp.path = <<"PING">>
  /\ Len(queue) >= 1
  /\ Len(subscribers["UNLOCKED"]) = 1

\* C19: in an engine with strict validation an event is accepted by publish,
\* and so appended to the queue, only while a phase is active that the catalog
\* entry of the event allows: UNLOCKED only during unlock-evaluation,
\* LAYER_RESET_EXECUTED only during event-dispatch, LAYER_RESET_REQUESTED only
\* during input and event-dispatch, and nothing while no phase is active.
C19_StrictPublishOnlyInAllowedPhase ==
  [][ (strictValidation /\ Len(queue') > Len(queue)) =>
        \A i \in (Len(queue) + 1)..Len(queue') :
           /\ currentPhase' # Null
           /\ currentPhase' \in EVENT_CATALOG[queue'[i].type].phaseConstraints ]_vars

(***************************************************************************)
(* Properties of the layer reset service                                   *)
(***************************************************************************)
\* the paths of the canonical states of ResetSpec: the paths written, the
\* paths of the objects that hold them and the paths of what is written
ResetUniverse ==
  UNION { { SubSeq(path, 1, n) : n \in 1..Len(path) } \cup { path \o <<"bars">> } : path \in ResetPaths }

\* the keep paths of the layer that had a defined value in the state before
PreservedPaths(layerId, before) ==
  LET layer == Definition.layers[CHOOSE i \in 1..Len(Definition.layers) :
                                    Definition.layers[i].id = layerId]
  IN { layer.reset.keep[i] : i \in { j \in 1..Len(layer.reset.keep) :
                                       getPath(before, layer.reset.keep[j]) # Undef } }

\* C20: after a completed LayerResetService.execute for layer L, every
\* canonical path at or below a keep path of L that was defined before the
\* reset has its value of before the reset, every other path (the objects
\* that enclose a preserved path aside) has its initial value or is absent,
\* and one LAYER_RESET_EXECUTED event was appended to the queue whose
\* preservedKeys are the keep paths of L in order.
C20_ResetKeepsOnlyKeepPaths ==
  [][ (lastOp'.op = "execute" /\ lastOp'.ok) =>
        LET layerId == lastOp'.path[1]
            layer == Definition.layers[CHOOSE i \in 1..Len(Definition.layers) :
                                          Definition.layers[i].id = layerId]
            kept == PreservedPaths(layerId, canonicalState)
        IN /\ \A p \in ResetUniverse :
                IF \E k \in kept : IsPrefix(k, p)
                THEN getPath(canonicalState', p) = getPath(canonicalState, p)
                ELSE IF \E k \in kept : IsPrefix(p, k)
                THEN getPath(canonicalState', p).t = "obj"
                ELSE getPath(canonicalState', p) \in {getPath(DefinitionState, p), Undef}
           /\ Len(queue') = Len(queue) + 1
           /\ SubSeq(queue', 1, Len(queue)) = queue
           /\ queue'[Len(queue')].type = "LAYER_RESET_EXECUTED"
           /\ queue'[Len(queue')].payload = layerId
           /\ queue'[Len(queue')].preservedKeys = <<layer.reset.keep>> ]_vars

\* a reset of idle has kept the gold that was set, has put xp back to its
\* initial value and has dropped the layer's own state
C20_Witness ==
  /\ lastOp = [op |-> "execute", path |-> <<"idle">>, ok |-> TRUE]
  /\ getPath(canonicalState, <<"resources", "gold">>) = Num(MaxNum)
  /\ getPath(canonicalState, <<"resources", "xp">>) = Num(0)
  /\ getPath(canonicalState, <<"layers">>) = Undef
  /\ Len(queue) >= 1
  /\ queue[Len(queue)].type = "LAYER_RESET_EXECUTED"
  /\ queue[Len(queue)].preservedKeys = << << <<"resources", "gold">> >> >>

\* C21: LayerResetService.execute is all-or-nothing: a call that completes
\* has replaced the canonical state by the reset baseline and has queued
\* LAYER_RESET_EXECUTED, and a call that raises has left the canonical state,
\* the derived state and the event queue unchanged.
C21_ResetAllOrNothing ==
  [][ lastOp'.op = "execute" =>
        IF lastOp'.ok
        THEN /\ findLayer(Definition, lastOp'.path[1]) # {}
             /\ Len(queue') = Len(queue) + 1
             /\ queue'[Len(queue')].type = "LAYER_RESET_EXECUTED"
             /\ derivedState' = derivedState
        ELSE /\ canonicalState' = canonicalState
             /\ derivedState' = derivedState
             /\ queue' = queue ]_vars

(***************************************************************************)
(* Properties of the reset chain of the engine                             *)
(***************************************************************************)
\* the input phase routes a REQUEST_LAYER_RESET intent for an existing layer
RoutesResetRequest ==
  /\ tick.pc = "input"
  /\ tick.pending # <<>>
  /\ lastOp'.op = "route"
  /\ nextIntent(tick.pending).type = "REQUEST_LAYER_RESET"
  /\ findLayer(Definition, nextIntent(tick.pending).layerId) # {}

\* the handler has published LAYER_RESET_REQUESTED and has returned, and the
\* canonical state is as it was
ResetRequested ==
  /\ lastOp' = [op |-> "route", path |-> <<"INTENT_ROUTED">>, ok |-> TRUE]
  /\ canonicalState' = canonicalState
  /\ Len(queue') = Len(queue) + 1
  /\ queue'[Len(queue')].type = "LAYER_RESET_REQUESTED"
  /\ queue'[Len(queue')].payload = nextIntent(tick.pending).layerId
  /\ tick'.pc = "input"

\* the dispatch of a tick that has routed a reset request ends
ResetDispatchEnds ==
  /\ tick.pc = "event-dispatch"
  /\ InSeq("INTENT_ROUTED", tick.summary.intentsRouted)
  /\ disp.pc # "idle"
  /\ disp'.pc = "idle"

\* the dispatch returns after the cycle that executed the reset and the
\* cycle that delivered LAYER_RESET_EXECUTED
ResetExecutedAndDelivered ==
  /\ lastOp' = [op |-> "dispatchQueued", path |-> <<"return">>, ok |-> TRUE]
  /\ getPath(canonicalState', <<"resources", "xp">>) = Num(0)
  /\ getPath(canonicalState', <<"layers">>) = Undef
  /\ maxDispatchCyclesPerTick >= 2 =>
       /\ lastDispatchReport'.cyclesProcessed >= 2
       /\ lastDispatchReport'.eventsProcessed >= 2
       /\ \A i \in 1..Len(queue') :
            queue'[i].type \notin {"LAYER_RESET_REQUESTED", "LAYER_RESET_EXECUTED"}

NodePaths ==
  LET L == Definition.layers
  IN UNION { { [ref |-> formatNodeRef(<<L[i].id>>), path |-> {formatNodeRef(<<L[i].id>>)}] } \cup
     UNION { LET S == L[i].sublayers[j]
                 sPath == {formatNodeRef(<<L[i].id>>), formatNodeRef(<<L[i].id, S.id>>)}
             IN { [ref |-> formatNodeRef(<<L[i].id, S.id>>), path |-> sPath] } \cup
                UNION { LET C == S.sections[k]
                            cRef == formatNodeRef(<<L[i].id, S.id, C.id>>)
                        IN { [ref |-> cRef, path |-> sPath \cup {cRef}] } \cup
                           { [ref |-> formatNodeRef(<<L[i].id, S.id, C.id, C.elements[l].id>>),
                              path |-> sPath \cup {cRef,
                                 formatNodeRef(<<L[i].id, S.id, C.id, C.elements[l].id>>)}]
                             : l \in 1..Len(C.elements) }
                        : k \in 1..Len(S.sections) }
             : j \in 1..Len(L[i].sublayers) }
     : i \in 1..Len(L) }

\* the UI of a summary holds a node exactly when the unlock summary of the
\* same summary has the node and every node above it unlocked
UiMatchesUnlocks(summary) ==
  summary.ui # NullRec =>
    \A node \in NodePaths :
      InSeq(node.ref, summary.ui.layers) <=> \A r \in node.path : summary.unlocks.unlocked[r]

\* C23: the UI tree of a tick holds a node exactly when the node and all
\* the nodes above it are unlocked in the unlock summary of that tick: a node
\* that has just transitioned is present, and the children of a locked node
\* are left out even when they are unlocked themselves.
C23_UiHoldsUnlockedPaths ==
  /\ UiMatchesUnlocks(tick.summary)
  /\ lastTickSummary # NullRec => UiMatchesUnlocks(lastTickSummary)

\* a tick has returned whose unlock evaluation unlocked the element under the
\* locked section: the UI has the sublayer, not the section, not the element
C23_Witness ==
  /\ lastTickSummary # NullRec
  /\ InSeq("layer:idle/sublayer:main/section:jobs/element:xp-gated", lastTickSummary.unlocks.transitions)
  /\ ~lastTickSummary.unlocks.unlocked["layer:idle/sublayer:main/section:jobs"]
  /\ InSeq("layer:idle/sublayer:main", lastTickSummary.ui.layers)
  /\ ~InSeq("layer:idle/sublayer:main/section:jobs/element:xp-gated", lastTickSummary.ui.layers)

(***************************************************************************)
(* Properties of the layer contexts                                        *)
(***************************************************************************)
\* layer layerId has made a successful setOwn or patchOwn call
OwnWriteOf(layerId) ==
  /\ lastOp'.ok
  /\ \E s \in ContextSuffixes :
       \/ LayerContext_setOwn(layerId, s, Num(MaxNum))
       \/ \E v \in OwnPartials : LayerContext_patchOwn(layerId, s, v)

\* the canonical paths outside layers and the derived namespace are as before
NonLayerUnchanged ==
  /\ derivedState' = derivedState
  /\ \A k \in (DOMAIN canonicalState.f \cup DOMAIN canonicalState'.f) \ {"layers"} :
       getPath(canonicalState', <<k>>) = getPath(canonicalState, <<k>>)

\* C24: a successful setOwn or patchOwn call of the context of a layer
\* leaves the subtree of every other layer of the definition, the canonical
\* paths outside layers and the derived namespace unchanged.
C24_OwnWritesStayInOwnSubtree ==
  [][ \A layerId \in ContextLayerIds :
        OwnWriteOf(layerId) =>
          /\ NonLayerUnchanged
          /\ \A other \in ContextLayerIds \ {layerId} :
               getPath(canonicalState', layerStatePath(other))
                 = getPath(canonicalState, layerStatePath(other)) ]_vars

(***************************************************************************)
(* Properties of initialize and destroy                                    *)
(***************************************************************************)
\* the last call was an initialize() that raised
InitializeRaised == lastOp.op = "initialize" /\ ~lastOp.ok

\* C25: when initialize() raises the engine ends uninitialized, whether or
\* not it was initialized before: an enqueueIntent() call that follows
\* raises, and a tick() call that follows raises without entering a phase.
C25_FailedInitializeLeavesNoRuntime ==
  [][ /\ (lastOp'.op = "initialize" /\ ~lastOp'.ok) => ~(initialized' /\ definition' # NullRec)
      /\ (InitializeRaised /\ lastOp'.op = "enqueueIntent") => ~lastOp'.ok
      /\ (InitializeRaised /\ tick.pc = "idle") => tick'.pc = "idle" ]_vars

\* the handlers the engine subscribes during initialize
EngineHandlers == {"LayerResetService"} \cup { "Layer:" \o LayerIds[i] : i \in 1..Len(LayerIds) }

\* the engine is torn down: not initialized, no token and no layer kept
TornDown ==
  /\ ~initialized
  /\ runtimeSubscriptionTokens = <<>>
  /\ layerEventSubscriptionTokens = <<>>
  /\ layerInstances = <<>>

C27_DestroyInReverseOrder ==
  [][ /\ (lastOp'.op = "initialize" /\ lastOp'.ok) =>
           [i \in 1..Len(layerInstances') |-> layerInstances'[i].id] = LayerIds
      /\ lastOp'.op = "destroy" =>
           lastOp'.path = [i \in 1..Len(layerInstances) |->
                             layerInstances[Len(layerInstances) + 1 - i].id] ]_vars

\* C28: register for an intent type that already has a handler raises and
\* leaves the handlers as they were.
C28_DuplicateRegisterRaises ==
  [][ (lastOp'.op = "register" /\ lastOp'.path[1] \in handlers) =>
        (~lastOp'.ok /\ handlers' = handlers) ]_vars

\* C29: evaluateAll raises for every phase other than "end-of-tick", and a
\* call that raises changes no unlock entry and publishes no UNLOCKED event.
C29_EvaluateAllRequiresEndOfTick ==
  [][ /\ (lastOp'.op = "evaluateAll" /\ lastOp'.path # <<"end-of-tick">>) => ~lastOp'.ok
      /\ (lastOp'.op = "evaluateAll" /\ ~lastOp'.ok) =>
           (unlockedByRef' = unlockedByRef /\ queue' = queue) ]_vars

\* the time phase of the running tick() reads dt from the time system
ReadsDeltaTime(dt) == enterPhase(phaseCursor, "time") /\ Tick_timePhase(dt)

\* C30: when getDeltaTime() returns a negative or non-finite value, tick()
\* raises in the time phase: the call ends there without a layer update, a
\* dispatch, an unlock evaluation, a render or a returned summary.
C30_BadDeltaTimeAbortsTick ==
  [][ \A dt \in DeltaTimes :
        (ReadsDeltaTime(dt) /\ (~dt.isFinite \/ dt.n < 0)) =>
          /\ lastOp' = [op |-> "enterPhase", path |-> <<"time", "error">>, ok |-> FALSE]
          /\ IF outerTicks = <<>> THEN tick' = TickIdle
             ELSE tick'.pc = "thrown" /\ outerTicks' = Tail(outerTicks)
          /\ tick.summary.updatedLayers = <<>>
          /\ \A i \in 1..Len(tick.entered) : tick.entered[i] = "input"
          /\ UNCHANGED <<storeVars, queue, disp, unlockedByRef, lastTickSummary, invocations>> ]_vars

\* the first tick() of an engine was aborted in its time phase
C30_Witness ==
  /\ lastOp = [op |-> "enterPhase", path |-> <<"time", "error">>, ok |-> FALSE]
  /\ currentPhase = "time"
  /\ tick = TickIdle
  /\ tickCalls = 1
  /\ lastTickSummary = NullRec

\* the value a leaf reads
LeafRead(ast) == readPath(canonicalState, ast.path)

\* the leaf reads a missing path or a value of the wrong type
LeafMistyped(ast) ==
  \/ ast.type \in {"resourceGte", "compare"} /\ LeafRead(ast).t # "num"
  \/ ast.type = "flag" /\ LeafRead(ast).t # "bool"

\* what a leaf that reads a value of the right type says
LeafHolds(ast) ==
  CASE ast.type = "resourceGte" -> LeafRead(ast).n >= ast.value
    [] ast.type = "flag" -> LeafRead(ast).b
    [] ast.op = "gt" -> LeafRead(ast).n > ast.value
    [] ast.op = "gte" -> LeafRead(ast).n >= ast.value
    [] ast.op = "lt" -> LeafRead(ast).n < ast.value
    [] ast.op = "lte" -> LeafRead(ast).n <= ast.value
    [] ast.op = "eq" -> LeafRead(ast).n = ast.value
    [] ast.op = "neq" -> LeafRead(ast).n # ast.value

\* the condition as the unlock language defines it
Satisfied(ast) ==
  LET leaf(a) == ~LeafMistyped(a) /\ LeafHolds(a)
  IN CASE ast.type = "not" -> ~leaf(ast.child)
       [] ast.type = "all" -> \A i \in 1..Len(ast.children) : leaf(ast.children[i])
       [] ast.type = "any" -> \E i \in 1..Len(ast.children) : leaf(ast.children[i])
       [] OTHER -> leaf(ast)

\* C31: a leaf that reads a missing path or a value of the wrong type is
\* false and its negation true, all/any/not combine their children as AND,
\* OR and negation, and the unlock-evaluation phase of a tick completes
\* whatever the canonical state holds.
C31_UnlockEvaluationTotal ==
  [][ /\ lastOp'.op = "evaluateUnlockCondition" =>
           LET ast == lastOp'.path[1]
           IN /\ lastOp'.value = Satisfied(ast)
              /\ (ast \in ConditionLeaves /\ LeafMistyped(ast)) => ~lastOp'.value
              /\ (ast.type = "not" /\ LeafMistyped(ast.child)) => lastOp'.value
      /\ (tick.pc = "dispatched" /\ enterPhase(phaseCursor, "unlock-evaluation")
            /\ tick'.pc # "dispatched") =>
           (lastOp'.ok /\ tick'.pc = "unlock-evaluation") ]_vars

\* the negation of a number leaf was evaluated on a boolean and holds, and a
\* tick ran its unlock evaluation on that state
C31_Witness ==
  /\ readPath(canonicalState, <<"resources", "gold">>) = Bool(TRUE)
  /\ lastOp.op = "evaluateUnlockCondition"
  /\ lastOp.path = <<NotOf(Compare(<<"resources", "gold">>, "neq", MaxNum))>>
  /\ lastOp.value
  /\ lastTickSummary # NullRec
  /\ lastTickSummary.unlocks.unlockedRefs = <<"layer:idle", "layer:idle/sublayer:main">>

LiveTokens(subs) ==
  UNION { { subs[t][i].token : i \in 1..Len(subs[t]) } : t \in EventTypes }

\* the number of subscriptions in subs
LiveCount(subs) == Len(Concat([i \in 1..Len(EventCatalogOrder) |-> subs[EventCatalogOrder[i]]]))

\* C33: subscribe returns a token the bus never issued before, also after an
\* unsubscribe; unsubscribe(token) removes exactly the subscription with that
\* token and returns true, and returns false and changes nothing when no
\* subscription has the token.
C33_TokensUniqueUnsubscribeExact ==
  [][ /\ nextToken' >= nextToken
      /\ \A token \in LiveTokens(subscribers) : token < nextToken
      /\ (lastOp'.op = "subscribe" /\ subscribers' # subscribers) =>
           /\ LiveCount(subscribers') = LiveCount(subscribers) + 1
           /\ \E token \in LiveTokens(subscribers') :
                /\ LiveTokens(subscribers') = LiveTokens(subscribers) \cup {token}
                /\ token >= nextToken
                /\ token < nextToken'
      /\ \A token \in 1..(MaxTokens + 1) :
           (lastOp'.op = "unsubscribe" /\ EventBus_unsubscribe(token)) =>
             IF token \in LiveTokens(subscribers)
             THEN /\ lastOp'.ok
                  /\ LiveCount(subscribers') = LiveCount(subscribers) - 1
                  /\ LiveTokens(subscribers') = LiveTokens(subscribers) \ {token}
                  /\ \A t \in EventTypes :
                       subscribers'[t] = SelectSeq(subscribers[t], LAMBDA sub : sub.token # token)
             ELSE ~lastOp'.ok /\ subscribers' = subscribers ]_vars

\* the first subscription was removed, a second one got a new token, and an
\* unsubscribe of the removed token returned false
C33_Witness ==
  /\ lastOp = [op |-> "unsubscribe", path |-> <<>>, ok |-> FALSE]
  /\ nextToken = 3
  /\ LiveTokens(subscribers) = {2}

\* C34: for every canonical reference S of one to four scopes,
\* format(parse(S)) = S, and normalize gives S for every S' made from S by
\* adding whitespace around its segments.
C34_NodeRefRoundTrip ==
  [][ \A ids \in NodeIdLists :
        /\ (lastOp'.op = "parseNodeRef" /\ lastOp'.path = CanonicalRef(ids)) =>
             (lastOp'.ok /\ lastOp'.value = CanonicalRef(ids))
        /\ \A padding \in Paddings :
             (lastOp'.op = "normalizeNodeRef" /\ lastOp'.path = WhitespaceVariant(ids, padding)) =>
               (lastOp'.ok /\ lastOp'.value = CanonicalRef(ids)) ]_vars

\* the padded reference of the tests, with four scopes, was normalized
C34_Witness ==
  /\ lastOp.op = "normalizeNodeRef"
  /\ lastOp.path = WhitespaceVariant(<< <<"a">>, <<"a", "b">>, <<"a">>, <<"a", ":", " ", "b">> >>,
                                     "around")
  /\ lastOp.ok
  /\ Len(lastOp.value) < Len(lastOp.path)

\* the compare node reads a number equal to its target
AtBoundary(ast) ==
  /\ ast.type = "compare"
  /\ ast.op \in {"gt", "lt"}
  /\ readPath(canonicalState, ast.path) = Num(ast.value)

\* the progress of every condition is between 0 and 1, below 1 for gt and lt
\* at equality and 1 for their negations at equality
ProgressInBounds(op) ==
  LET ast == op.path[1]
  IN /\ op.value >= 0
     /\ op.value <= Grid
     /\ AtBoundary(ast) => op.value < Grid
     /\ (ast.type = "not" /\ AtBoundary(ast.child)) => op.value = Grid

\* C35: estimateProgress is in [0,1] for every AST and state; for compare
\* with gt or lt at equality it is strictly below 1, and for not(gt) and
\* not(lt) at equality it is exactly 1.
C35_ProgressBounds ==
  [][ lastOp'.op = "evaluateUnlockProgress" => ProgressInBounds(lastOp') ]_vars

\* the accepted events that wait for their dispatch: those in the queue and
\* those of the running cycle whose handlers have not all run
PendingEvents ==
  { queue[i].seq : i \in 1..Len(queue) }
    \cup { disp.dispatchQueue[i].seq : i \in { j \in 1..Len(disp.dispatchQueue) : j >= disp.idx } }

\* the event under dispatch has been handed once to each handler of the
\* cycle's snapshot for its type, and to no other
ProcessedOnce ==
  /\ disp.pc = "handlers"
  /\ disp.hidx > Len(disp.handlers)
  /\ doneForEvent = Tokens(cycleStartSubs[CurrentEvent.type])

\* C36: no accepted event is lost or duplicated: an accepted event waits in
\* the queue or in the running cycle until each handler of the cycle's
\* snapshot has been invoked exactly once for it, also when dispatchQueued
\* aborts with the maxEventsPerTick error or because a handler raised.
C36_NoEventLostOrDuplicated ==
  [][ /\ \A seq \in PendingEvents \ PendingEvents' :
            ProcessedOnce /\ seq = CurrentEvent.seq
      /\ \A seq \in PendingEvents' \ PendingEvents : seq = nextSeq /\ nextSeq' = nextSeq + 1
      /\ Len(queue') + Len(disp'.dispatchQueue) - (IF disp'.idx = 0 THEN 0 ELSE disp'.idx - 1)
           >= Cardinality(PendingEvents') ]_vars

(***************************************************************************)
(* A bus whose handlers publish, subscribe and unsubscribe, with a running *)
(* dispatchQueued() call that is never suspended: JavaScript runs the call *)
(* to completion, so each of its steps is taken once it is enabled.        *)
(***************************************************************************)
TerminationSubscriptions ==
  { [type |-> "LAYER_RESET_REQUESTED", handler |-> h] :
      h \in {"noop", "republish", "lateSub", "unsubLast"} }

SubscribedCount(handler) ==
  Cardinality({ token \in 1..nextToken : \E t \in EventTypes : \E i \in 1..Len(subscribers[t]) :
                  subscribers[t][i].token = token /\ subscribers[t][i].handler = handler })

\* the events and tokens a call can add stay within the budget of the model:
\* a call hands at most maxEventsPerTick events to its handlers
DispatchWithinBudget ==
  /\ nextSeq - 1 + maxEventsPerTick * SubscribedCount("republish") <= MaxPublished
  /\ nextToken - 1 + maxEventsPerTick * SubscribedCount("lateSub") <= MaxTokens

Caller_dispatchQueued ==
  /\ DispatchWithinBudget
  /\ EventBus_dispatchQueued

DispatchRuns ==
  \/ DispatchLoop
  \/ Handler_publish
  \/ Handler_subscribe
  \/ Handler_unsubscribe

TerminationNext ==
  \/ Caller_publish([type |-> "LAYER_RESET_REQUESTED", payload |-> "idle", phase |-> Null])
  \/ \E sub \in TerminationSubscriptions : Caller_subscribe(sub.type, sub.handler)
  \/ Caller_dispatchQueued
  \/ DispatchRuns

TerminationSpec == BusOptions /\ [][TerminationNext]_vars /\ WF_vars(DispatchRuns)

\* the report of a call that returned is within the guardrails
ReportWithinGuardrails(report) ==
  /\ report.cyclesProcessed <= maxDispatchCyclesPerTick
  /\ report.eventsProcessed <= maxEventsPerTick
  /\ report.deferredDueToCycleLimit => report.cyclesProcessed = maxDispatchCyclesPerTick

\* C37: every dispatchQueued() call terminates whatever its handlers
\* publish, subscribe or unsubscribe: it returns with cyclesProcessed and
\* eventsProcessed within the guardrails or raises the maxEventsPerTick
\* error, and on return deferredDueToCycleLimit is true only if
\* cyclesProcessed = maxDispatchCyclesPerTick.
C37_DispatchTerminates ==
  /\ (disp.pc # "idle") ~> (disp.pc = "idle")
  /\ [][ (disp.pc # "idle" /\ disp'.pc = "idle") =>
           \/ lastOp' = DispatchReturned /\ ReportWithinGuardrails(lastDispatchReport')
           \/ lastOp' = [op |-> "dispatchQueued", path |-> <<"maxEventsPerTick">>, ok |-> FALSE]
     ]_vars

\* a call whose handlers published returned at the cycle limit with events
\* deferred
C37_Witness ==
  /\ lastOp = DispatchReturned
  /\ lastDispatchReport.deferredDueToCycleLimit
  /\ lastDispatchReport.cyclesProcessed = maxDispatchCyclesPerTick
  /\ lastDispatchReport.deliveredHandlers > 0

\* C38: whenever no tick() call is in progress (before the first tick, after
\* a tick returned, after a tick aborted in any phase) engine.currentPhase
\* and eventBus.allowedPhase are both null.
C38_PhaseNullBetweenTicks ==
  (tick.pc = "idle" /\ outerTicks = <<>>) => (currentPhase = Null /\ allowedPhase = Null)

\* C39: a tick() during which a hook called tick() again does not return a
\* summary: the re-entrant call is detected by the phase gate, which ends the
\* outer call with a phase-order error.
C39_ReentrantTickDetected ==
  [][ tick.reentered => lastOp' # TickReturned ]_vars

\* the nodes of the definition with their own unlock conditions
DefinitionNodes ==
  UNION { {[ids |-> <<layer.id>>, unlock |-> layer.unlock]} \cup
          UNION { {[ids |-> <<layer.id, sublayer.id>>, unlock |-> sublayer.unlock]} \cup
                  UNION { {[ids |-> <<layer.id, sublayer.id, section.id>>,
                            unlock |-> section.unlock]} \cup
                          { [ids |-> <<layer.id, sublayer.id, section.id, element.id>>,
                             unlock |-> element.unlock] :
                              element \in { section.elements[i] : i \in 1..Len(section.elements) } } :
                          section \in { sublayer.sections[i] : i \in 1..Len(sublayer.sections) } } :
                  sublayer \in { layer.sublayers[i] : i \in 1..Len(layer.sublayers) } } :
          layer \in { Definition.layers[i] : i \in 1..Len(Definition.layers) } }

PublishedUnlocked(events, ref, firstSeq) ==
  Cardinality({ k \in 1..Len(events) :
                  /\ events[k].type = "UNLOCKED"
                  /\ events[k].payload = ref
                  /\ events[k].seq >= firstSeq }) = 1

\* C40: a node's unlock transition depends only on its own condition:
\* evaluateAll marks a node unlocked and publishes one UNLOCKED event for it in
\* the first evaluation in which its own condition holds, whether or not its
\* ancestors are unlocked.
C40_UnlockDependsOnOwnCondition ==
  [][ lastOp' = UnlockEvaluated =>
        \A node \in DefinitionNodes :
          LET ref == formatNodeRef(node.ids)
              holds == evaluateUnlockCondition(node.unlock, canonicalState)
              unlocks == tick'.summary.unlocks
          IN /\ unlockedByRef'[ref] <=> (unlockedByRef[ref] \/ holds)
             /\ InSeq(ref, unlocks.unlockedRefs) <=> unlockedByRef'[ref]
             /\ InSeq(ref, unlocks.transitions) <=> (~unlockedByRef[ref] /\ holds)
             /\ (~unlockedByRef[ref] /\ holds) => PublishedUnlocked(queue', ref, nextSeq)
             /\ ~(~unlockedByRef[ref] /\ holds) =>
                  ~\E k \in 1..Len(queue') : /\ queue'[k].type = "UNLOCKED"
                                             /\ queue'[k].payload = ref
                                             /\ queue'[k].seq >= nextSeq ]_vars

\* the summary lists the element unlocked in this evaluation while its section
\* is locked
C40_Witness ==
  /\ lastOp = UnlockEvaluated
  /\ InSeq(formatNodeRef(<<"idle", "main", "jobs", "xp-gated">>), tick.summary.unlocks.transitions)
  /\ InSeq(formatNodeRef(<<"idle", "main", "jobs", "xp-gated">>), tick.summary.unlocks.unlockedRefs)
  /\ ~unlockedByRef[formatNodeRef(<<"idle", "main", "jobs">>)]
  /\ ~InSeq(formatNodeRef(<<"idle", "main", "jobs">>), tick.summary.unlocks.unlockedRefs)

====
